---- MODULE Spec2Model ----
(***************************************************************************)
(* Temperature based DAC bias control loop of biasAdj.py.                  *)
(*                                                                         *)
(* Number representation.  The program computes with Python floats; the    *)
(* model computes with integers in fixed point:                            *)
(*   voltages      in units of 1e-8 V   (1 V = VoltUnit),                   *)
(*   calibrated and reference voltages as <<v, w>>, v * 1e-8 V and a       *)
(*                 further w * 1e-16 V with 0 <= w < VoltUnit,             *)
(*   sample temps  in units of 0.01 C   (the BME280 resolution),            *)
(*   block average and deviation as the exact fraction <<a, b>> in lowest   *)
(*                 terms, a / b in units of 0.01 C,                         *)
(*   codes         as the integers they are.                               *)
(* NaN (math.nan) is the value NaN, which no measured quantity takes.      *)
(***************************************************************************)
EXTENDS Integers, Sequences, FiniteSets, TLC

\* ------------------------------ units --------------------------------

\* 1 V in voltage units (1e-8 V)
VoltUnit == 100000000
\* 0.01 V (the resolution dac.py prints) in voltage units
CentiVolt == 1000000
NaN == -1
\* What read_bme returns for a quantity is <<x>> for the number x and None
\* when the read failed; None differs from every number
None == <<>>
isnan(x) == x = NaN

\* ------------------------------ bounds -------------------------------

\* number of configured channels explored (CHANNELS lists 4)
NumChannels == 1
\* number of channels the stand-alone ramp specification may be called with
RampChannels == 2
\* sample periods per block window (the default configuration has 30)
SamplesPerBlock == 3
\* number of block windows the run is followed for
MaxBlocks == 1
\* longest ramp explored by the stand-alone ramp specification
MaxRampDist == 3
\* longest block handed to the outlier filter on its own
MaxFilterLen == 10
\* block windows of the steady-temperature runs that lie before time 0
SteadyBlocks == 2

\* sensor readings offered to the loop, in 0.01 C, hPa and percent
TempSet == {500, 2020, 2030, 2500, 3500}
PressSet == {1013}
HumSet == {40}
\* wall-clock times (s) at which the program may be started
StartTimes == {0, 17}

\* ------------------------------ CONFIG -------------------------------

CHANNELS == [i \in 1..NumChannels |-> i - 1]
ChannelSet == {CHANNELS[i] : i \in 1..NumChannels}
\* variant: start codes beyond the 10 bits of the DAC
StartCodesWide == [ch \in ChannelSet |-> 753 + 1024]
\* 0x2F1 for every channel
START_CODES == [ch \in ChannelSet |-> 753]

\* 20.0 C, in 0.01 C
REF_TEMP_C == 2000
\* 0.054 V per C, in mV per C
TEMP_COEFF_V_PER_C == 54
\* -0.0226786515445685 V and 2.3527073030891374 V: the first eight
\* decimals in voltage units and the eight that follow in 1e-16 V
VOFF == -2267865
VOFF_DIGITS == 15445685
SPAN == 235270730
SPAN_DIGITS == 30891374

SAMPLE_EVERY_SEC == 10
LOG_BLOCK_SEC == SamplesPerBlock * SAMPLE_EVERY_SEC
\* seconds a completed ramp may have taken, as seen at the realignment
RampDurations == {0, LOG_BLOCK_SEC + 10}

MIN_STEP_CODES == 5
MIN_STEP_VOLTS == 1200000
\* 0.20 C, in 0.01 C
T_STD_MAX_C == 20
\* 10.0 C, in 0.01 C
MAX_DT_ABS_C == 1000
MAX_CODES_STEP_PER_BLOCK == 120

\* the switch read from the environment (line 90), fixed for the run
VARIABLE OUTLIER_FILTER_ENABLE
\* the least number of rows the filter acts on, read from the environment
\* (line 91), fixed for the run
VARIABLE OUTLIER_MIN_POINTS
\* its default
MinPointsDefault == 8
\* its value in the runs that follow the sensor: with it a block of the
\* SamplesPerBlock + 1 polls of a window is filtered although a read of it
\* failed, as a block of the 31 polls of the default window is with the
\* default
MinPointsSensor == 3
\* variant: one half, in tenths, so that OUTLIER_MAD_Z * 1.4826 is below 1
OutlierMadZHalf == 10 \div 2
\* 3.5, in tenths
OUTLIER_MAD_Z == 35
\* the factor 1.4826 of sigma_like, times 10000
MadScale == 14826

\* dac.py: HIGH_SIDE = 57.0 V, in 0.01 V
HIGH_SIDE == 5700

\* --------------------------- Helper funcs ----------------------------

Abs(x) == IF x < 0 THEN -x ELSE x
Max(a, b) == IF a > b THEN a ELSE b
Min(a, b) == IF a < b THEN a ELSE b

clamp(x, lo, hi) == IF x < lo THEN lo ELSE IF x > hi THEN hi ELSE x

\* the element of a one-element set; {F(v) : v \in {e}} evaluates e once
TheOne(S) == CHOOSE y \in S : TRUE

\* <<q, r>> with b * m = q * d + r and 0 <= r < d, for 0 <= b < d and
\* 7 * d < 2^31, computed digit by digit (base 4) so that the product b * m,
\* which does not fit the integers of the checker, is never formed
MulDivDigit(qr, digit, b, d) ==
    <<4 * qr[1] + ((4 * qr[2] + digit * b) \div d), (4 * qr[2] + digit * b) % d>>
RECURSIVE MulDivMod(_, _, _)
MulDivMod(b, m, d) ==
    IF m = 0 THEN <<0, 0>>
    ELSE TheOne({MulDivDigit(h, m % 4, b, d) : h \in {MulDivMod(b, m \div 4, d)}})

\* q + r / d rounded to an integer, ties to even as Python's round()
RoundHalfEven(q, r, d) ==
    IF 2 * r > d THEN q + 1
    ELSE IF 2 * r < d THEN q
    ELSE IF q % 2 = 0 THEN q ELSE q + 1

\* round(x * m / d) for x >= 0
MulDivRound(x, m, d) ==
    TheOne({TheOne({RoundHalfEven((v \div d) * m + qr[1], qr[2], d) :
                      qr \in {MulDivMod(v % d, m, d)}}) : v \in {x}})

EXPECTED_SAMPLES_PER_BLOCK ==
    MulDivRound(LOG_BLOCK_SEC, 1, Max(1, SAMPLE_EVERY_SEC))
MIN_SAMPLES_PER_BLOCK ==
    Max(1, (80 * EXPECTED_SAMPLES_PER_BLOCK) \div 100)

RECURSIVE gcd(_, _)
gcd(a, b) == IF b = 0 THEN a ELSE gcd(b, a % b)
\* the fraction a / b, b > 0, in lowest terms
Ratio(a, b) == TheOne({<<a \div g, b \div g>> : g \in {gcd(Abs(a), b)}})

\* voltages with sixteen decimals
FineAdd(p, q) ==
    <<p[1] + q[1] + ((p[2] + q[2]) \div VoltUnit), (p[2] + q[2]) % VoltUnit>>
FineLess(p, q) == p[1] < q[1] \/ (p[1] = q[1] /\ p[2] < q[2])
\* p * m / d for p >= 0, 0 <= m <= 2 * d and 7 * d < 2^31, the digits past
\* 1e-16 V dropped
FineMulDiv(p, m, d) ==
    LET t1 == (p[1] % d) * m
        t2 == (p[2] % d) * m
        q1 == MulDivMod(t1 % d, VoltUnit, d)
        low == q1[1] + (p[2] \div d) * m + (t2 \div d)
                 + ((q1[2] + (t2 % d)) \div d)
    IN  <<(p[1] \div d) * m + (t1 \div d) + (low \div VoltUnit),
          low % VoltUnit>>
\* p + a / n voltage units for 0 < n < 10000, the digits past 1e-16 V
\* dropped; the eight decimals of (a % n) / n are taken four at a time
FineShift(p, a, n) ==
    LET r1 == (a % n) * 10000
        r2 == (r1 % n) * 10000
        low == p[2] + (r1 \div n) * 10000 + (r2 \div n)
    IN  <<p[1] + (a \div n) + (low \div VoltUnit), low % VoltUnit>>
\* to the nearest voltage unit
FineRound(p) == IF 2 * p[2] >= VoltUnit THEN p[1] + 1 ELSE p[1]

VoffFine == <<VOFF - 1, VoltUnit - VOFF_DIGITS>>
SpanFine == <<SPAN, SPAN_DIGITS>>

\* VOFF + SPAN * (c / 1023.0) for the 10-bit codes c, computed once
VlowOfCode ==
    [c \in 0..1023 |-> FineAdd(VoffFine, FineMulDiv(SpanFine, c, 1023))]
\* code_to_vlow with sixteen decimals
code_to_vlow_fine(code) ==
    LET frac1023 == Max(0, Min(1023, code % 1024))
        v == VlowOfCode[frac1023]
    IN  IF v[1] < 0 THEN <<0, 0>> ELSE v
\* code_to_vlow to the nearest voltage unit
code_to_vlow(code) == FineRound(code_to_vlow_fine(code))

\* the voltage at which ((v - VOFF) / SPAN) * 1023.0 is k + 0.5, computed
\* once
HalfCode ==
    [k \in 0..1023 |->
        FineAdd(VoffFine, FineMulDiv(SpanFine, 2 * k + 1, 2 * 1023))]
\* ---- the doubles of vlow_to_code, lines 108-111 ----
\* A natural number below 2^81 is <<a0, a1, a2>>, a0 + a1 * 2^27 +
\* a2 * 2^54 with limbs below 2^27.  A double is <<m, e>>, the value
\* m * 2^e with 2^52 <= m < 2^53.
Limb == 2^27
BigAdd(a, b) ==
    LET s1 == a[1] + b[1]
        s2 == a[2] + b[2] + (s1 \div Limb)
    IN  <<s1 % Limb, s2 % Limb, a[3] + b[3] + (s2 \div Limb)>>
BigLess(a, b) ==
    \/ a[3] < b[3]
    \/ a[3] = b[3] /\ a[2] < b[2]
    \/ a[3] = b[3] /\ a[2] = b[2] /\ a[1] < b[1]
\* a \div 2^n for 0 <= n <= 27
BigShr(a, n) ==
    <<(a[1] \div 2^n) + (a[2] % 2^n) * 2^(27 - n),
      (a[2] \div 2^n) + (a[3] % 2^n) * 2^(27 - n), a[3] \div 2^n>>
\* x * m for a limb x and 0 <= m < 2^27, from the four products of their
\* halves of fourteen and thirteen bits
LimbTimes(x, m) ==
    LET t0 == (x % 2^14) * (m % 2^14)
        t1 == (x \div 2^14) * (m % 2^14) + (x % 2^14) * (m \div 2^14)
        t2 == (x \div 2^14) * (m \div 2^14)
    IN  BigAdd(<<t0 % Limb, t0 \div Limb, 0>>,
               <<(t1 % 2^13) * 2^14, (t1 \div 2^13) + 2 * t2, 0>>)
\* a * m for 0 <= m < 2^27 and a * m < 2^81, limb by limb
BigTimes(a, m) ==
    TheOne({BigAdd(t[1], BigAdd(<<0, t[2][1], t[2][2]>>, <<0, 0, t[3][1]>>)) :
               t \in {<<LimbTimes(a[1], m), LimbTimes(a[2], m),
                        LimbTimes(a[3], m)>>}})
\* one step of the long division by d: qr = <<quotient, remainder>> so far
DivideStep(qr, bit, d) ==
    LET s1(r) == r[1] - d[1]
        s2(r) == r[2] - d[2] + (s1(r) \div Limb)
        \* r - d for r >= d
        Less(r) == <<s1(r) % Limb, s2(r) % Limb,
                     r[3] - d[3] + (s2(r) \div Limb)>>
    IN  TheOne({IF BigLess(r, d) THEN <<BigAdd(qr[1], qr[1]), r>>
                ELSE <<BigAdd(BigAdd(qr[1], qr[1]), <<1, 0, 0>>), Less(r)>> :
                   r \in {BigAdd(BigAdd(qr[2], qr[2]), <<bit, 0, 0>>)}})
\* c steps of it, on bit i of n and the bits below (below bit 0 the bits
\* are zero): the first half of the steps, then the rest.  From
\* qr = <<0, 0>> and c = i + 1 + z it gives <<quotient, remainder>> of
\* n * 2^z by d for n < 2^(i + 1)
RECURSIVE DivideBits(_, _, _, _, _)
DivideBits(n, i, c, d, qr) ==
    IF c = 0 THEN qr
    ELSE IF c = 1
    THEN DivideStep(qr, IF i >= 0
                        THEN (n[(i \div 27) + 1] \div 2^(i % 27)) % 2
                        ELSE 0, d)
    ELSE TheOne({DivideBits(n, i - (c \div 2), c - (c \div 2), d, s) :
                    s \in {DivideBits(n, i, c \div 2, d, qr)}})
\* the double nearest to a * 2^e, ties to even, for 2^52 <= a: the bits
\* above the 54th are shifted out, n of them, and the last bit rounds;
\* inexact says that a fraction of a was dropped already
RoundToDouble(a, e, inexact) ==
    TheOne({IF BigLess(t[1], <<0, Limb \div 2, 0>>) THEN <<t[1], e + t[3]>>
            ELSE TheOne({IF t[1][1] % 2 = 1 /\ (t[2] \/ m[1] % 2 = 1)
                         THEN IF BigAdd(m, <<1, 0, 0>>) = <<0, Limb \div 2, 0>>
                              THEN <<<<0, Limb \div 4, 0>>, e + t[3] + 2>>
                              ELSE <<BigAdd(m, <<1, 0, 0>>), e + t[3] + 1>>
                         ELSE <<m, e + t[3] + 1>> : m \in {BigShr(t[1], 1)}}) :
               t \in {TheOne({<<BigShr(a, n), inexact \/ a[1] % 2^n # 0, n>> :
                                 n \in {CHOOSE n \in 0..27 :
                                           /\ a[3] < 2^n
                                           /\ n = 0 \/ 2^(n - 1) <= a[3]}})}})
\* float() of a decimal: the double nearest to the voltage p with sixteen
\* decimals, 1e-5 V <= p < 3.6 V: p in units of 1e-16 V, times 2^70, by 1e16
DoubleOf(p) ==
    TheOne({RoundToDouble(qr[1], -70, qr[2] # <<0, 0, 0>>) :
               qr \in {TheOne({DivideBits(nd[1], 55, 126, nd[2],
                                          <<<<0, 0, 0>>, <<0, 0, 0>>>>) :
                   nd \in {<<BigAdd(BigTimes(<<p[1] % Limb, p[1] \div Limb, 0>>,
                                             VoltUnit), <<p[2], 0, 0>>),
                             BigTimes(<<VoltUnit, 0, 0>>, VoltUnit)>>}})}})
\* the doubles -VOFF and SPAN of lines 63-64
VoffDouble == DoubleOf(<<-VOFF, VOFF_DIGITS>>)
SpanDouble == DoubleOf(SpanFine)
\* x + y and x / y in doubles, for positive doubles x and y
DoubleSum(x, y) ==
    TheOne({RoundToDouble(BigAdd(BigTimes(x[1], 2^(x[2] - e)),
                                 BigTimes(y[1], 2^(y[2] - e))), e, FALSE) :
               e \in {Min(x[2], y[2])}})
DoubleQuot(x, y) ==
    TheOne({RoundToDouble(qr[1], x[2] - y[2] - 55, qr[2] # <<0, 0, 0>>) :
               qr \in {DivideBits(x[1], 52, 108, y[1],
                                  <<<<0, 0, 0>>, <<0, 0, 0>>>>)}})
\* int(round(((v - VOFF) / SPAN) * 1023.0)) for the double v nearest to the
\* voltage p, p within 1e-14 V of the half code k >= 10: the product y of
\* line 110, one float operation after the other, rounded to k or to
\* k + 1, to the even one of the two when y is k + 0.5
DoubleCode(p, k) ==
    TheOne({TheOne({TheOne({TheOne({TheOne({
        IF BigLess(y[1], h) THEN k
        ELSE IF BigLess(h, y[1]) THEN k + 1
        ELSE k + (k % 2) :
           h \in {BigTimes(BigTimes(<<2 * k + 1, 0, 0>>, 2^24),
                           2^(-1 - y[2] - 24))}}) :
           y \in {RoundToDouble(BigTimes(q[1], 1023), q[2], FALSE)}}) :
           q \in {DoubleQuot(a, SpanDouble)}}) :
           a \in {DoubleSum(v, VoffDouble)}}) :
           v \in {DoubleOf(p)}})
\* round(((v - VOFF) / SPAN) * 1023.0) for the double v nearest to a voltage
\* v >= 0 with sixteen decimals, sought upward and downward from the code
\* k: the code whose half codes lie around v, and within 1e-14 V of a half
\* code the code the doubles give.  Farther from a half code the rounding
\* errors of line 110, below 2e-15 V together, do not reach it
RECURSIVE CodeNear(_, _)
CodeNear(v, k) ==
    LET NearHalf(j) ==
            /\ Abs(v[1] - HalfCode[j][1]) <= 1
            /\ Abs((v[1] - HalfCode[j][1]) * VoltUnit + v[2] - HalfCode[j][2])
                  <= 100
    IN  IF k <= 1023 /\ FineLess(HalfCode[k], v) THEN CodeNear(v, k + 1)
        ELSE IF k >= 1 /\ FineLess(v, HalfCode[k - 1]) THEN CodeNear(v, k - 1)
        ELSE IF k <= 1023 /\ NearHalf(k) THEN DoubleCode(v, k)
        ELSE IF k >= 1 /\ NearHalf(k - 1) THEN DoubleCode(v, k - 1)
        ELSE k
\* the search starts from the quotient of the leading digits
RoundedCode(v) ==
    CodeNear(v, Min(1024, ((Min(v[1] - VOFF, SPAN) \div 256) * 1023)
                              \div (SPAN \div 256)))
\* variant: int() of the quotient of the first eight decimals, without
\* round()
vlow_to_codeTrunc(v) ==
    LET v0 == Max(0, FineRound(v))
        code == ((v0 - VOFF) \div SPAN) * 1023
                    + MulDivMod((v0 - VOFF) % SPAN, 1023, SPAN)[1]
    IN  Max(0, Min(1023, code))
\* vlow_to_code of a voltage with sixteen decimals
vlow_to_code_fine(v) ==
    TheOne({Max(0, Min(1023, RoundedCode(v0))) :
              v0 \in {IF v[1] < 0 THEN <<0, 0>> ELSE v}})
\* vlow_to_code of a voltage in voltage units
vlow_to_code(v) == vlow_to_code_fine(<<v, 0>>)

\* dac.py predicted_vlow
predicted_vlow(code10) == code_to_vlow(code10)
\* dac.py main() lines 83-89: the three lines printed for each code
DacPrints ==
    [code10 \in 0..1023 |->
        LET vlow2 == MulDivRound(predicted_vlow(code10), 1, CentiVolt)
        IN  <<HIGH_SIDE, vlow2 * CentiVolt, HIGH_SIDE - vlow2>>]
\* dac.py main() called with a channel and a code: the exit status and what
\* is printed on stdout.  A channel outside 0..7 exits with 2 and a code
\* outside 0..1023 with 3, before anything is written to the DAC or
\* printed; otherwise the three lines <<hv, vlow, vbias>> are printed, each
\* rounded to two decimals, hv and vbias in 0.01 V, vlow in voltage units
dac_main(ch, code10) ==
    IF ~(0 <= ch /\ ch <= 7) THEN [exit |-> 2, stdout |-> <<>>]
    ELSE IF ~(0 <= code10 /\ code10 <= 1023) THEN [exit |-> 3, stdout |-> <<>>]
    ELSE [exit |-> 0, stdout |-> DacPrints[code10]]

\* parse_dac_stdout: the three numbers of the three printed lines, NaN for
\* a line that is missing
parse_dac_stdout(text) ==
    [i \in 1..3 |-> IF i \in DOMAIN text THEN text[i] ELSE NaN]

\* set_dac_and_read(ch, code) -> <<hv, vlow, vbias>>; ok says whether the
\* dac.py subprocess came to its end (no I2C error, no timeout).  A non-zero
\* exit status raises CalledProcessError (check=True) and gives three NaN
set_dac_and_read(dry, ch, code, ok) ==
    IF dry THEN <<NaN, code_to_vlow(code), NaN>>
    ELSE IF ok
         THEN TheOne({IF run.exit = 0 THEN parse_dac_stdout(run.stdout)
                      ELSE <<NaN, NaN, NaN>> : run \in {dac_main(ch, code)}})
    ELSE <<NaN, NaN, NaN>>

\* set_dac_and_read, subprocess.run(..., timeout=10): the seconds a call of
\* dac.py takes, next to none or as many as the timeout leaves it; the dry
\* run starts no subprocess
DAC_TIMEOUT_SEC == 10
DacCallSeconds(dry) == IF dry THEN {0} ELSE {0, DAC_TIMEOUT_SEC}
\* how many of n calls in a row may take the whole timeout
SlowCalls(dry, n) == IF dry THEN {0} ELSE 0..n

\* main() line 410 (backup file line 314): the stamp of the rows of a block,
\* strftime("%Y-%m-%d %H:%M:00") of the block end, which is the block end
\* cut to the whole minute, in seconds
MinuteStamp(t) == (t \div 60) * 60

align_to_next_boundary(t, period) == ((t \div period) + 1) * period

\* ------------------------- statistics helpers -------------------------

RECURSIVE SumSeq(_)
SumSeq(s) == IF s = <<>> THEN 0 ELSE Head(s) + SumSeq(Tail(s))

RECURSIVE InsertSorted(_, _)
InsertSorted(x, s) ==
    IF s = <<>> THEN <<x>>
    ELSE IF x <= Head(s) THEN <<x>> \o s
    ELSE <<Head(s)>> \o InsertSorted(x, Tail(s))

RECURSIVE sorted(_)
sorted(s) == IF s = <<>> THEN <<>> ELSE InsertSorted(Head(s), sorted(Tail(s)))

\* statistics.median, doubled (the median of an even count is a half)
median2(s) ==
    LET srt == sorted(s)
        n == Len(s)
    IN  IF n % 2 = 1 THEN 2 * srt[(n + 1) \div 2]
        ELSE srt[n \div 2] + srt[n \div 2 + 1]

\* statistics.mean of temperatures in 0.01 C, the exact fraction
mean(ts) == Ratio(SumSeq(ts), Len(ts))

\* n (t - mean) for every temperature t of ts, in 0.01 C
Deviations(ts) ==
    TheOne({[i \in DOMAIN ts |-> Len(ts) * ts[i] - s1] : s1 \in {SumSeq(ts)}})

\* the sum of the squares of ds, or a number above cap when it is above
\* cap; no square that would not fit 32 bits is formed
SumSqUpTo(ds, cap) ==
    SumSeq([i \in DOMAIN ds |->
              IF Abs(ds[i]) >= 32768 THEN cap + 1
              ELSE Min(cap + 1, ds[i] * ds[i])])

\* the binade of the double t / 100.0, t # 0 in 0.01 C: the e with
\* 2^(e-7) <= |t| / 100 < 2^(e-6); the double's last place is 2^(e-59)
RECURSIVE BinadeFrom(_, _)
BinadeFrom(a, e) ==
    IF 100 * 2^(e + 1) <= 128 * a THEN BinadeFrom(a, e + 1) ELSE e
Binade(t) == BinadeFrom(Abs(t), 0)

RECURSIVE Pow2Mod(_, _)
Pow2Mod(k, m) == IF k = 0 THEN 1 % m ELSE (2 * Pow2Mod(k - 1, m)) % m

\* what the double nearest to t / 100 has above t / 100, in hundredths of
\* its last place: t * 2^(59-e) / 100 is rounded to the nearest integer
FloatErr(t) ==
    IF t = 0 THEN 0
    ELSE LET r == (Abs(t) * Pow2Mod(59 - Binade(t), 100)) % 100
             up == IF r < 50 THEN -r ELSE 100 - r
         IN  IF t > 0 THEN up ELSE -up

\* statistics.pstdev(ts) > 0.20 for temperatures whose exact spread is
\* 0.20 C: pstdev is the correctly rounded root of the exact variance of
\* the doubles.  The double of t / 100 is (t + f * 2^(e-59)) / 100 with
\* f = FloatErr(t) and e = Binade(t), the double 0.20 is 0.4 * 2^-55 above
\* 0.2 and the next double 2^-55 further up, so that the root is rounded
\* above the limit when it exceeds 0.2 by more than 0.9 * 2^-55 (at the
\* midpoint it is rounded to the even double, 0.20 itself):
\*   sum(n (t - mean) * f * 2^e) + Q * 2^-60
\*       > 225 * 128 * n^2 + 4050 * n^2 * 2^-51
\* with Q = n * sum(f^2 * 4^e) - sum(f * 2^e)^2, from the squares of the
\* roundings.  Q * 2^-60 is below one, so that the first sum decides
\* unless it equals 225 * 128 * n^2, and then Q > 4050 * 512 * n^2 does.
\* The squares f^2 * 4^e are added in two parts, above and below 2^16
TieRoundsAbove(ts) ==
    LET n == Len(ts)
        ds == Deviations(ts)
        nz == {i \in DOMAIN ts : ts[i] # 0}
        emin == CHOOSE e \in {Binade(ts[i]) : i \in nz} :
                    \A i \in nz : e <= Binade(ts[i])
        K == SumSeq([i \in DOMAIN ts |->
                       IF ts[i] = 0 THEN 0
                       ELSE ds[i] * FloatErr(ts[i])
                              * 2^(Binade(ts[i]) - emin)])
        bound == 225 * 128 * n * n
        Big(x) == <<x % Limb, x \div Limb, 0>>
        sq(t) == FloatErr(t) * FloatErr(t)
        hi == SumSeq([i \in DOMAIN ts |->
                        IF ts[i] = 0 THEN 0
                        ELSE IF Binade(ts[i]) >= 8
                             THEN sq(ts[i]) * 2^(2 * Binade(ts[i]) - 16)
                        ELSE (sq(ts[i]) * 2^(2 * Binade(ts[i]))) \div 2^16])
        lo == SumSeq([i \in DOMAIN ts |->
                        IF ts[i] = 0 \/ Binade(ts[i]) >= 8 THEN 0
                        ELSE (sq(ts[i]) * 2^(2 * Binade(ts[i]))) % 2^16])
        s1 == Abs(SumSeq([i \in DOMAIN ts |->
                            IF ts[i] = 0 THEN 0
                            ELSE FloatErr(ts[i]) * 2^Binade(ts[i])]))
        nS2 == BigTimes(BigAdd(Big(lo), BigTimes(Big(hi), 2^16)), n)
        rhs == BigAdd(BigTimes(Big(s1), s1), BigTimes(Big(4050 * 512 * n), n))
    IN  /\ nz # {}
        /\ \/ K > bound \div 2^emin
           \/ /\ K = bound \div 2^emin
              /\ bound % 2^emin = 0
              /\ BigLess(rhs, nS2)

\* pstdev(ts) > lim  (lim in 0.01 C); pstdev is taken as 0.0 for one sample.
\* The squared deviations are compared exactly; for a spread that equals
\* the limit T_STD_MAX_C exactly the roundings of the doubles decide
PstdevAbove(ts, lim) ==
    IF Len(ts) <= 1 THEN 0 > lim
    ELSE LET cap == lim * lim * Len(ts) * Len(ts) * Len(ts)
         IN  TheOne({IF ss # cap THEN ss > cap
                     ELSE lim = T_STD_MAX_C /\ TieRoundsAbove(ts) :
                        ss \in {TheOne({SumSqUpTo(ds, cap) :
                                          ds \in {Deviations(ts)}})}})
pstdev_gt(temps, lim) == TheOne({PstdevAbove(ts, lim) : ts \in {temps}})

\* the loop of filter_temp_outliers over the rows: <<filtered, removed>>
RECURSIVE FilterLoop(_, _, _)
FilterLoop(rows, med2, thr) ==
    IF rows = <<>> THEN <<<<>>, 0>>
    ELSE LET rest == FilterLoop(Tail(rows), med2, thr)
         IN  IF Abs(2 * Head(rows)[1] - med2) * 20000 <= thr
             THEN <<<<Head(rows)>> \o rest[1], rest[2]>>
             ELSE <<rest[1], rest[2] + 1>>

\* variant: no pass-through for a zero MAD
filter_temp_outliersNoGuard(block_rows) ==
    IF (~OUTLIER_FILTER_ENABLE) \/ Len(block_rows) < OUTLIER_MIN_POINTS
    THEN <<block_rows, 0>>
    ELSE LET temps == [i \in 1..Len(block_rows) |-> block_rows[i][1]]
             med2 == median2(temps)
             abs_dev2 == [i \in 1..Len(temps) |-> Abs(2 * temps[i] - med2)]
             mad4 == median2(abs_dev2)
         IN  FilterLoop(block_rows, med2,
                        ((OUTLIER_MAD_Z * MadScale) \div 10) * mad4)
\* filter_temp_outliers(block_rows) -> <<filtered_rows, removed_count>>
\* med2 = 2 * t_med, mad4 = 4 * mad; a row is kept when
\* |t - t_med| <= OUTLIER_MAD_Z * 1.4826 * mad
filter_temp_outliers(block_rows) ==
    IF (~OUTLIER_FILTER_ENABLE) \/ Len(block_rows) < OUTLIER_MIN_POINTS
    THEN <<block_rows, 0>>
    ELSE LET temps == [i \in 1..Len(block_rows) |-> block_rows[i][1]]
             abs_dev2(med2) == [i \in 1..Len(temps) |-> Abs(2 * temps[i] - med2)]
         IN  TheOne({TheOne({
                 IF mad4 = 0 THEN <<block_rows, 0>>
                 ELSE FilterLoop(block_rows, med2,
                                 ((OUTLIER_MAD_Z * MadScale) \div 10) * mad4) :
                    mad4 \in {median2(abs_dev2(med2))}}) :
                    med2 \in {median2(temps)}})

\* ------------------------------ state --------------------------------

VARIABLES
    DRY_RUN,                \* simulate-only switch, fixed for the run
    pc,                     \* position of main(): "boot", "fatal" (exited),
                            \*   "align", "start", "collect", "aggregate",
                            \*   "ramp", "log", "realign"
    now,                    \* time.time(), in s
    current_boundary,
    block_end,
    start_i,                \* index in CHANNELS of the start code applied next
    block_rows,             \* rows (temp, pressure, humidity) of the open block
    last_code_by_ch,
    vlow_ref_by_ch,
    last_meas_vlow_by_ch,
    last_meas_hv_by_ch,
    last_meas_vbias_by_ch,
    dT,                     \* clamped temperature deviation of the block
    before_info,            \* per pending channel: code_prev, vlow_before
    ch_order,               \* ramp: channels with a pending target, in order
    code_now,               \* ramp: current code per channel
    code_tgt,               \* ramp: target code per channel
    last_hv,                \* ramp: reading of the latest write per channel
    last_vlow,
    last_vbias,
    ramp_i,                 \* ramp: index in ch_order the sweep visits next
    bme_rows,               \* number of data rows appended to the BME log
    adj_rows,               \* number of data rows appended to the DAC log
    adj_cycle,              \* the DAC log rows appended in this loop cycle
    blocks_done,            \* number of block windows the loop has completed
    block_msg,              \* what main() printed about the latest block:
                            \*   the warning of its skip, "none" if acted on
    dac_code,               \* per channel: code of the latest DAC write
    writes,                 \* per channel: DAC writes issued since the block
                            \*   loop last came to its top (line 373)
    gap_slept,              \* a write gap sleep followed the latest DAC write
    dac_found,              \* the DAC script exists (lines 292)
    start_code_chs,         \* the channels START_CODES has an entry for
    bme_found,              \* init_bme() finds the sensor
    fatal_msg,              \* the [fatal] message main() exited with, or "none"
    read_fails,             \* "[warn] BME280 read failed" printed while the
                            \*   open block is collected
    T_avg,                  \* mean temperature of the block acted on
    call_arg,               \* argument of a function called on its own
    call_ret                \* what that call returned

chanVars == <<last_code_by_ch, vlow_ref_by_ch, last_meas_vlow_by_ch,
              last_meas_hv_by_ch, last_meas_vbias_by_ch>>
rampVars == <<ch_order, code_now, code_tgt, last_hv, last_vlow, last_vbias,
              ramp_i>>
logVars == <<bme_rows, adj_rows, adj_cycle>>
dacVars == <<dac_code, writes, gap_slept>>
timeVars == <<now, current_boundary, block_end>>
cfgVars == <<DRY_RUN, OUTLIER_FILTER_ENABLE, OUTLIER_MIN_POINTS, dac_found,
             start_code_chs, bme_found, fatal_msg>>
callVars == <<call_arg, call_ret>>

vars == <<cfgVars, callVars, read_fails, T_avg, pc, timeVars, start_i, block_rows, chanVars, dT,
          before_info, rampVars, logVars, blocks_done, block_msg, dacVars>>

Empty == [x \in {} |-> 0]
Put(f, k, v) == [x \in (DOMAIN f) \cup {k} |-> IF x = k THEN v ELSE f[x]]
\* dict.get(k, default)
Get(f, k, default) == IF k \in DOMAIN f THEN f[k] ELSE default

NoWrites == [ch \in ChannelSet |-> 0]
Horizon == (MaxBlocks + 1) * LOG_BLOCK_SEC

\* the state main() is in after its startup checks, with min_points as
\* OUTLIER_MIN_POINTS
InitWith(min_points) ==
    /\ DRY_RUN \in BOOLEAN
    /\ OUTLIER_FILTER_ENABLE = TRUE
    /\ OUTLIER_MIN_POINTS = min_points
    /\ dac_found = TRUE
    /\ start_code_chs = ChannelSet
    /\ bme_found = TRUE
    /\ fatal_msg = "none"
    /\ read_fails = 0
    /\ T_avg = Ratio(0, 1)
    /\ call_arg = <<>>
    /\ call_ret = <<>>
    /\ pc = "align"
    /\ now \in StartTimes
    /\ current_boundary = 0
    /\ block_end = 0
    /\ start_i = 1
    /\ block_rows = <<>>
    /\ last_code_by_ch = Empty
    /\ vlow_ref_by_ch = Empty
    /\ last_meas_vlow_by_ch = Empty
    /\ last_meas_hv_by_ch = Empty
    /\ last_meas_vbias_by_ch = Empty
    /\ dT = Ratio(0, 1)
    /\ before_info = Empty
    /\ ch_order = <<>>
    /\ code_now = Empty
    /\ code_tgt = Empty
    /\ last_hv = Empty
    /\ last_vlow = Empty
    /\ last_vbias = Empty
    /\ ramp_i = 1
    /\ bme_rows = 0
    /\ adj_rows = 0
    /\ adj_cycle = <<>>
    /\ blocks_done = 0
    /\ block_msg = "none"
    /\ dac_code = Empty
    /\ writes = NoWrites
    /\ gap_slept = FALSE

Init == InitWith(MinPointsDefault)

\* main() lines 342-349: wait for the next boundary, create the state;
\* codes is START_CODES
AlignOf(codes) ==
    /\ pc = "align"
    /\ LET boundary == align_to_next_boundary(now, LOG_BLOCK_SEC)
       IN  /\ now' = boundary
           /\ current_boundary' = boundary
    /\ last_code_by_ch' = codes
    /\ start_i' = 1
    /\ pc' = "start"
    /\ UNCHANGED <<cfgVars, callVars, read_fails, T_avg,
                   block_end, block_rows, vlow_ref_by_ch,
                   last_meas_vlow_by_ch, last_meas_hv_by_ch,
                   last_meas_vbias_by_ch, dT, before_info, rampVars, logVars,
                   blocks_done, block_msg, dacVars>>

Align == AlignOf(START_CODES)

\* main() lines 352-370, one pass of the loop over the channel list chs
\* (CHANNELS); after the last channel the block loop is entered (lines
\* 373-374)
ApplyStartCodeOf(chs) ==
    /\ pc = "start"
    /\ \E ok \in BOOLEAN, secs \in DacCallSeconds(DRY_RUN) :
         LET ch == chs[start_i]
             rd == set_dac_and_read(DRY_RUN, ch, last_code_by_ch[ch], ok)
             hv == rd[1]
             vlow == rd[2]
             vbias == rd[3]
         IN  /\ IF ~isnan(vlow)
                THEN \* in a dry run vlow is code_to_vlow(code) itself
                     /\ vlow_ref_by_ch' =
                          Put(vlow_ref_by_ch, ch,
                              IF DRY_RUN
                              THEN code_to_vlow_fine(last_code_by_ch[ch])
                              ELSE <<vlow, 0>>)
                     /\ last_meas_vlow_by_ch' = Put(last_meas_vlow_by_ch, ch, vlow)
                ELSE /\ vlow_ref_by_ch' =
                          Put(vlow_ref_by_ch, ch,
                              code_to_vlow_fine(last_code_by_ch[ch]))
                     /\ last_meas_vlow_by_ch' = Put(last_meas_vlow_by_ch, ch, NaN)
             /\ last_meas_hv_by_ch' = Put(last_meas_hv_by_ch, ch, hv)
             /\ last_meas_vbias_by_ch' = Put(last_meas_vbias_by_ch, ch, vbias)
             /\ dac_code' = Put(dac_code, ch, last_code_by_ch[ch])
             /\ gap_slept' = FALSE
             /\ now' = now + secs
    /\ IF start_i < Len(chs)
       THEN /\ start_i' = start_i + 1
            /\ pc' = "start"
            /\ UNCHANGED <<block_end, block_rows>>
       ELSE /\ start_i' = 1
            /\ pc' = "collect"
            /\ block_end' = current_boundary + LOG_BLOCK_SEC
            /\ block_rows' = <<>>
    /\ writes' = IF start_i < Len(chs)
                 THEN [writes EXCEPT ![chs[start_i]] = @ + 1]
                 ELSE [ch \in DOMAIN writes |-> 0]
    /\ UNCHANGED <<cfgVars, callVars, read_fails, T_avg,
                   current_boundary, last_code_by_ch, dT,
                   before_info, rampVars, logVars, blocks_done, block_msg>>

ApplyStartCode == ApplyStartCodeOf(CHANNELS)

\* read_bme(sensor): the three numbers read, or None three times when the
\* read raises or gives a NaN; ok says whether the sensor answered with
\* numbers
read_bme(ok, t, p, h) ==
    IF ok THEN <<<<t>>, <<p>>, <<h>>>> ELSE <<None, None, None>>

\* variant: a read that failed leaves a row of zeros
RowsAfterReadAlways(rows, r) ==
    Append(rows, IF r[1] # None THEN <<r[1][1], r[2][1], r[3][1]>>
                 ELSE <<0, 0, 0>>)
\* main() lines 378-380: t, p, h = read_bme(sensor), and the row (t, p, h)
\* is appended if t is not None
RowsAfterRead(rows, r) ==
    IF r[1] # None THEN Append(rows, <<r[1][1], r[2][1], r[3][1]>>) ELSE rows

\* variant: the sampling loop is left after the first pass
BlockOverAtOnce(t, end) == TRUE
\* main() lines 382-384: if now >= block_end: break
BlockOver(t, end) == t >= end

\* main() lines 377-386, one pass of the sampling loop: read_bme gives a row
\* or fails (None); then the block ends or the loop sleeps
ReadSample ==
    /\ pc = "collect"
    /\ block_end <= Horizon
    /\ \E ok \in BOOLEAN, t \in TempSet, p \in PressSet, h \in HumSet :
         /\ block_rows' = RowsAfterRead(block_rows, read_bme(ok, t, p, h))
         /\ read_fails' = IF ok THEN read_fails ELSE read_fails + 1
    /\ IF BlockOver(now, block_end)
       THEN /\ pc' = "aggregate"
            /\ now' = now
       ELSE /\ pc' = "collect"
            /\ now' = now + Min(SAMPLE_EVERY_SEC, Max(0, block_end - now))
    /\ UNCHANGED <<cfgVars, callVars, T_avg, current_boundary, block_end,
                   start_i, chanVars, dT,
                   before_info, rampVars, logVars, blocks_done, block_msg,
                   dacVars>>

\* ------------------------- one block of main() -------------------------

\* main() lines 436-441: T_avg - REF_TEMP_C clamped, and the voltage shift
\* -TEMP_COEFF_V_PER_C * dT as an exact fraction of voltage units
BlockDT(t_avg) ==
    Ratio(clamp(t_avg[1] - REF_TEMP_C * t_avg[2],
                -MAX_DT_ABS_C * t_avg[2], MAX_DT_ABS_C * t_avg[2]), t_avg[2])
\* variant: the low side follows the temperature up
BlockDVUp(d) == <<(TEMP_COEFF_V_PER_C * (VoltUnit \div 100000)) * d[1], d[2]>>
BlockDV(d) == <<-(TEMP_COEFF_V_PER_C * (VoltUnit \div 100000)) * d[1], d[2]>>

\* main() lines 448-457: the step-limited target code of a channel;
\* vlow_ref has sixteen decimals, dV is a fraction
CodeTgtAbs(vlow_ref, dV) ==
    vlow_to_code_fine(FineShift(vlow_ref, dV[1], dV[2]))

\* variant: the step limit left out
StepLimitNone(delta_codes_abs) == delta_codes_abs
StepLimit(delta_codes_abs) ==
    clamp(delta_codes_abs, -MAX_CODES_STEP_PER_BLOCK, MAX_CODES_STEP_PER_BLOCK)

\* variant: the limited step is added without its sign
CodeTgtUnsigned(code_prev, code_tgt_abs) ==
    Max(0, Min(1023, code_prev + Abs(StepLimit(code_tgt_abs - code_prev))))
CodeTgt(code_prev, code_tgt_abs) ==
    Max(0, Min(1023, code_prev + StepLimit(code_tgt_abs - code_prev)))

\* variant: only the code threshold is checked
AntiDitherCodeOnly(code_prev, code_target) ==
    ~(Abs(code_target - code_prev) < MIN_STEP_CODES)
\* main() lines 460-464: the anti dither checks let the target through
AntiDitherPass(code_prev, code_target) ==
    /\ ~(Abs(code_target - code_prev) < MIN_STEP_CODES)
    /\ ~(Abs(code_to_vlow(code_target) - code_to_vlow(code_prev)) < MIN_STEP_VOLTS)

\* variant: the temperature spread is not checked
BlockVerdictNoStd(rows) ==
    LET used == filter_temp_outliers(rows)[1]
        n_used == Len(used)
    IN  IF rows = <<>> THEN "no_samples"
        ELSE IF n_used = 0 THEN "all_filtered"
        ELSE IF n_used < MIN_SAMPLES_PER_BLOCK THEN "too_few"
        ELSE "none"
\* variant: the sample count is not checked
BlockVerdictNoMin(rows) ==
    LET used == filter_temp_outliers(rows)[1]
        n_used == Len(used)
        t_samples == [i \in 1..n_used |-> used[i][1]]
    IN  IF rows = <<>> THEN "no_samples"
        ELSE IF n_used = 0 THEN "all_filtered"
        ELSE IF pstdev_gt(t_samples, T_STD_MAX_C) THEN "std_high"
        ELSE "none"
\* main() lines 388-433: what becomes of a collected block.  The value is
\* the warning main() prints, or "none" when the block passes every check
BlockVerdict(rows) ==
    TheOne({LET n_used == Len(used)
                t_samples == [i \in 1..n_used |-> used[i][1]]
            IN  IF rows = <<>> THEN "no_samples"
                ELSE IF n_used = 0 THEN "all_filtered"
                ELSE IF n_used < MIN_SAMPLES_PER_BLOCK THEN "too_few"
                ELSE IF pstdev_gt(t_samples, T_STD_MAX_C) THEN "std_high"
                ELSE "none" :
               used \in {filter_temp_outliers(rows)[1]}})

\* variant: the row is written after the quality checks
WritesBmeRowAccepted(verdict) == verdict = "none"
\* main() lines 388-420: the block gets a row in the BME log
WritesBmeRow(verdict) == verdict \notin {"no_samples", "all_filtered"}

\* variant: the shift is added to the voltage measured last, not to the
\* reference taken at startup
PlanTargetFromLast(ch, d) ==
    CodeTgt(last_code_by_ch[ch],
            CodeTgtAbs(IF isnan(Get(last_meas_vlow_by_ch, ch, NaN))
                       THEN code_to_vlow_fine(last_code_by_ch[ch])
                       ELSE <<last_meas_vlow_by_ch[ch], 0>>, BlockDV(d)))
\* main() lines 444-474: the pending targets of a block with deviation d
PlanTarget(ch, d) ==
    CodeTgt(last_code_by_ch[ch], CodeTgtAbs(vlow_ref_by_ch[ch], BlockDV(d)))
\* variant: every channel is ramped, whatever the anti dither checks say
PendingSetOfAll(S, d) == S
\* lines 443-474, for ch in CHANNELS: S is the set of the listed channels
PendingSetOf(S, d) ==
    {ch \in S : AntiDitherPass(last_code_by_ch[ch], PlanTarget(ch, d))}
PendingSet(d) == PendingSetOf(ChannelSet, d)

\* ch_order = [ch for ch in CHANNELS if ch in pending]
RECURSIVE OrderOf(_, _)
OrderOf(chs, pend) ==
    IF chs = <<>> THEN <<>>
    ELSE IF Head(chs) \in pend THEN <<Head(chs)>> \o OrderOf(Tail(chs), pend)
    ELSE OrderOf(Tail(chs), pend)

\* the top of the block loop, lines 373-374
LoopTop(boundary) ==
    /\ current_boundary' = boundary
    /\ block_end' = boundary + LOG_BLOCK_SEC
    /\ block_rows' = <<>>
    /\ read_fails' = 0
    /\ T_avg' = Ratio(0, 1)
    /\ writes' = [ch \in DOMAIN writes |-> 0]
    /\ blocks_done' = blocks_done + 1
    /\ pc' = "collect"

\* main() lines 388-486: filter, aggregate, log the block, gate it, plan the
\* updates and enter the ramp.  The rows of the block are not read again
\* after the aggregation; the model drops them there
ProcessBlockOf(chs) ==
    /\ pc = "aggregate"
    /\ \E block_rows_filt \in {filter_temp_outliers(block_rows)[1]},
          verdict \in {BlockVerdict(block_rows)} :
       LET n_used == Len(block_rows_filt)
           t_samples == [i \in 1..n_used |-> block_rows_filt[i][1]]
       IN  /\ block_msg' = verdict
           /\ bme_rows' = IF WritesBmeRow(verdict) THEN bme_rows + 1 ELSE bme_rows
           /\ UNCHANGED <<adj_rows, adj_cycle>>
           /\ IF verdict # "none"
              THEN \* current_boundary = block_end; continue
                   /\ LoopTop(block_end)
                   /\ UNCHANGED <<dT, before_info, rampVars>>
              ELSE \E d \in {BlockDT(mean(t_samples))} :
                   \E pend \in {PendingSetOf({chs[i] : i \in DOMAIN chs}, d)} :
                       /\ dT' = d
                       /\ before_info' =
                            [ch \in pend |->
                               [code_prev |-> last_code_by_ch[ch],
                                vlow_before |->
                                   IF isnan(Get(last_meas_vlow_by_ch, ch, NaN))
                                   THEN code_to_vlow(last_code_by_ch[ch])
                                   ELSE last_meas_vlow_by_ch[ch]]]
                       /\ block_rows' = <<>>
                       /\ T_avg' = mean(t_samples)
                       /\ read_fails' = 0
                       /\ UNCHANGED <<blocks_done, current_boundary, block_end,
                                      writes>>
                       /\ IF pend # {}
                          THEN /\ ch_order' = OrderOf(chs, pend)
                               /\ code_now' = [ch \in pend |-> last_code_by_ch[ch]]
                               /\ code_tgt' = [ch \in pend |-> PlanTarget(ch, d)]
                               /\ last_hv' = [ch \in pend |-> NaN]
                               /\ last_vlow' = [ch \in pend |-> NaN]
                               /\ last_vbias' = [ch \in pend |-> NaN]
                               /\ ramp_i' = 1
                               /\ pc' = "ramp"
                          ELSE /\ UNCHANGED rampVars
                               /\ pc' = "realign"
    /\ UNCHANGED <<cfgVars, callVars, now, start_i, chanVars, dac_code, gap_slept>>

ProcessBlock == ProcessBlockOf(CHANNELS)

\* ---------------------- ramp_codes_round_robin ------------------------

\* variant: only the first channel of the list is looked at
any_pending_first(cn, ct, order) ==
    cn[order[1]] # ct[order[1]]
\* lines 202-206
any_pending(cn, ct, order) ==
    \E i \in 1..Len(order) : cn[order[i]] # ct[order[i]]

\* variant: every write goes to the first channel not at its target
NextWriteIndexFirst ==
    LET all == {i \in 1..Len(ch_order) :
                    code_now[ch_order[i]] # code_tgt[ch_order[i]]}
    IN  CHOOSE i \in all : \A j \in all : i <= j
\* the position of the for loop that issues the next write: the first
\* channel at or after ramp_i that is not at its target, or, when the sweep
\* is over, the first such channel of the next sweep
NextWriteIndex ==
    LET rest == {i \in ramp_i..Len(ch_order) :
                    code_now[ch_order[i]] # code_tgt[ch_order[i]]}
        all == {i \in 1..Len(ch_order) :
                    code_now[ch_order[i]] # code_tgt[ch_order[i]]}
        from == IF rest # {} THEN rest ELSE all
    IN  CHOOSE i \in from : \A j \in from : i <= j

\* variant: two codes per step
StepTowardBy2(c, tgt) ==
    IF tgt > c
    THEN (IF c + 2 > tgt THEN tgt ELSE c + 2)
    ELSE (IF c - 2 < tgt THEN tgt ELSE c - 2)
\* lines 213-220: one code toward the target, never past it
StepToward(c, tgt) ==
    IF tgt > c
    THEN (IF c + 1 > tgt THEN tgt ELSE c + 1)
    ELSE (IF c - 1 < tgt THEN tgt ELSE c - 1)

\* lines 208-228: up to and including the next DAC write and its gap
RampStep ==
    /\ pc = "ramp"
    /\ any_pending(code_now, code_tgt, ch_order)
    /\ \E ok \in BOOLEAN :
         LET i == NextWriteIndex
             ch == ch_order[i]
             c == StepToward(code_now[ch], code_tgt[ch])
             rd == set_dac_and_read(DRY_RUN, ch, c, ok)
             cn == [code_now EXCEPT ![ch] = c]
             more == any_pending(cn, code_tgt, ch_order)
         IN  /\ code_now' = cn
             /\ last_hv' = [last_hv EXCEPT ![ch] = rd[1]]
             /\ last_vlow' = [last_vlow EXCEPT ![ch] = rd[2]]
             /\ last_vbias' = [last_vbias EXCEPT ![ch] = rd[3]]
             /\ dac_code' = Put(dac_code, ch, c)
             /\ writes' = [writes EXCEPT ![ch] = @ + 1]
             /\ gap_slept' = more
             /\ ramp_i' = IF more /\ i < Len(ch_order) THEN i + 1 ELSE 1
             /\ pc' = IF more THEN "ramp" ELSE "log"
    /\ UNCHANGED <<cfgVars, callVars, read_fails, T_avg,
                   timeVars, start_i, block_rows, chanVars, dT,
                   before_info, ch_order, code_tgt, logVars, blocks_done,
                   block_msg>>

\* main() lines 489-520: take over the ramp's result, one log row per channel
RECURSIVE AdjRows(_)
AdjRows(order) ==
    IF order = <<>> THEN <<>>
    ELSE LET ch == Head(order)
             code_new == code_now[ch]
         IN  << [ts |-> MinuteStamp(block_end), channel |-> ch,
                 old_code |-> before_info[ch].code_prev,
                 new_code |-> code_new,
                 vlow_before |-> before_info[ch].vlow_before,
                 vlow_after |-> IF isnan(last_vlow[ch]) THEN code_to_vlow(code_new)
                                ELSE last_vlow[ch],
                 deltaT |-> dT,
                 high_voltage |-> last_hv[ch],
                 effective_bias |-> last_vbias[ch]] >> \o AdjRows(Tail(order))

\* variant: the reference voltage follows the voltage measured after the ramp
LogAdjustmentsReref ==
    /\ pc = "log"
    /\ LET chs == {ch_order[i] : i \in 1..Len(ch_order)}
       IN  /\ last_code_by_ch' =
                [ch \in DOMAIN last_code_by_ch |->
                   IF ch \in chs THEN code_now[ch] ELSE last_code_by_ch[ch]]
           /\ last_meas_hv_by_ch' =
                [ch \in DOMAIN last_meas_hv_by_ch |->
                   IF ch \in chs THEN last_hv[ch] ELSE last_meas_hv_by_ch[ch]]
           /\ last_meas_vbias_by_ch' =
                [ch \in DOMAIN last_meas_vbias_by_ch |->
                   IF ch \in chs THEN last_vbias[ch] ELSE last_meas_vbias_by_ch[ch]]
           /\ last_meas_vlow_by_ch' =
                [ch \in DOMAIN last_meas_vlow_by_ch |->
                   IF ch \in chs
                   THEN (IF isnan(last_vlow[ch]) THEN code_to_vlow(code_now[ch])
                         ELSE last_vlow[ch])
                   ELSE last_meas_vlow_by_ch[ch]]
    /\ vlow_ref_by_ch' =
         [ch \in DOMAIN vlow_ref_by_ch |->
            IF ch \in {ch_order[i] : i \in 1..Len(ch_order)} /\ ~isnan(last_vlow[ch])
            THEN <<last_vlow[ch], 0>> ELSE vlow_ref_by_ch[ch]]
    /\ adj_cycle' = adj_cycle \o AdjRows(ch_order)
    /\ adj_rows' = adj_rows + Len(ch_order)
    /\ pc' = "realign"
    /\ UNCHANGED <<cfgVars, callVars, read_fails, T_avg,
                   timeVars, start_i, block_rows, dT,
                   before_info, rampVars, bme_rows, blocks_done, block_msg,
                   dacVars>>

\* variant: the code is taken over only from a ramp whose last write read back
LogAdjustmentsValidOnly ==
    /\ pc = "log"
    /\ LET chs == {ch_order[i] : i \in 1..Len(ch_order)}
       IN  /\ last_code_by_ch' =
                [ch \in DOMAIN last_code_by_ch |->
                   IF ch \in chs /\ ~isnan(last_vlow[ch]) THEN code_now[ch]
                   ELSE last_code_by_ch[ch]]
           /\ last_meas_hv_by_ch' =
                [ch \in DOMAIN last_meas_hv_by_ch |->
                   IF ch \in chs THEN last_hv[ch] ELSE last_meas_hv_by_ch[ch]]
           /\ last_meas_vbias_by_ch' =
                [ch \in DOMAIN last_meas_vbias_by_ch |->
                   IF ch \in chs THEN last_vbias[ch] ELSE last_meas_vbias_by_ch[ch]]
           /\ last_meas_vlow_by_ch' =
                [ch \in DOMAIN last_meas_vlow_by_ch |->
                   IF ch \in chs
                   THEN (IF isnan(last_vlow[ch]) THEN code_to_vlow(code_now[ch])
                         ELSE last_vlow[ch])
                   ELSE last_meas_vlow_by_ch[ch]]
    /\ adj_cycle' = adj_cycle \o AdjRows(ch_order)
    /\ adj_rows' = adj_rows + Len(ch_order)
    /\ pc' = "realign"
    /\ UNCHANGED <<cfgVars, callVars, read_fails, T_avg,
                   timeVars, start_i, block_rows, vlow_ref_by_ch, dT,
                   before_info, rampVars, bme_rows, blocks_done, block_msg,
                   dacVars>>
LogAdjustments ==
    /\ pc = "log"
    /\ LET chs == {ch_order[i] : i \in 1..Len(ch_order)}
       IN  /\ last_code_by_ch' =
                [ch \in DOMAIN last_code_by_ch |->
                   IF ch \in chs THEN code_now[ch] ELSE last_code_by_ch[ch]]
           /\ last_meas_hv_by_ch' =
                [ch \in DOMAIN last_meas_hv_by_ch |->
                   IF ch \in chs THEN last_hv[ch] ELSE last_meas_hv_by_ch[ch]]
           /\ last_meas_vbias_by_ch' =
                [ch \in DOMAIN last_meas_vbias_by_ch |->
                   IF ch \in chs THEN last_vbias[ch] ELSE last_meas_vbias_by_ch[ch]]
           /\ last_meas_vlow_by_ch' =
                [ch \in DOMAIN last_meas_vlow_by_ch |->
                   IF ch \in chs
                   THEN (IF isnan(last_vlow[ch]) THEN code_to_vlow(code_now[ch])
                         ELSE last_vlow[ch])
                   ELSE last_meas_vlow_by_ch[ch]]
    /\ adj_cycle' = adj_cycle \o AdjRows(ch_order)
    /\ adj_rows' = adj_rows + Len(ch_order)
    /\ pc' = "realign"
    /\ UNCHANGED <<cfgVars, callVars, read_fails, T_avg,
                   timeVars, start_i, block_rows, vlow_ref_by_ch, dT,
                   before_info, rampVars, bme_rows, blocks_done, block_msg,
                   dacVars>>

\* variant: the boundary is moved on by one period, whatever the time
RealignBoundaryIncrement(t) == block_end
\* main() line 523: int(math.floor(time.time() / LOG_BLOCK_SEC)) * LOG_BLOCK_SEC
RealignBoundary(t) == (t \div LOG_BLOCK_SEC) * LOG_BLOCK_SEC

\* main() line 523 and the loop top: the time the ramp took has passed
Realign ==
    /\ pc = "realign"
    /\ \E d \in (IF adj_cycle = <<>> THEN {0} ELSE RampDurations) :
         /\ now' = now + d
         /\ LoopTop(RealignBoundary(now'))
    /\ dT' = Ratio(0, 1)
    /\ before_info' = Empty
    /\ ch_order' = <<>>
    /\ code_now' = Empty
    /\ code_tgt' = Empty
    /\ last_hv' = Empty
    /\ last_vlow' = Empty
    /\ last_vbias' = Empty
    /\ ramp_i' = 1
    /\ adj_cycle' = <<>>
    /\ UNCHANGED <<cfgVars, callVars, start_i, chanVars, bme_rows, adj_rows, block_msg,
                   dac_code, gap_slept>>

Next ==
    \/ Align
    \/ ApplyStartCode
    \/ ReadSample
    \/ ProcessBlock
    \/ RampStep
    \/ LogAdjustments
    \/ Realign

Spec == Init /\ [][Next]_vars

\* the same program with OUTLIER_MIN_POINTS = MinPointsSensor in its
\* environment
SpecSensor == InitWith(MinPointsSensor) /\ [][Next]_vars

\* ------ the Direct policy: main() of backup_24Feb2026_biasAdj.py -------

\* backup main() lines 304-330: what becomes of a collected block (there is
\* no outlier filter)
BlockVerdictDirect(rows) ==
    LET t_samples == [i \in 1..Len(rows) |-> rows[i][1]]
    IN  IF rows = <<>> THEN "no_samples"
        ELSE IF Len(rows) < MIN_SAMPLES_PER_BLOCK THEN "too_few"
        ELSE IF pstdev_gt(t_samples, T_STD_MAX_C) THEN "std_high"
        ELSE "none"

\* variant: the target is applied without the step limit
PlanTargetDirectNoLimit(ch, d) ==
    Max(0, Min(1023, CodeTgtAbs(vlow_ref_by_ch[ch], BlockDV(d))))
\* backup main() lines 340-349: the step-limited target of a channel
PlanTargetDirect(ch, d) ==
    CodeTgt(last_code_by_ch[ch], CodeTgtAbs(vlow_ref_by_ch[ch], BlockDV(d)))

\* variant: no anti dither check, every channel is applied
PendingSetDirectAll(d) == ChannelSet
\* backup main() lines 351-357: the channels whose target is applied
PendingSetDirect(d) ==
    {ch \in ChannelSet :
        AntiDitherPass(last_code_by_ch[ch], PlanTargetDirect(ch, d))}

\* backup main() lines 359-388: the adjustment row of a channel, rd being
\* what the one apply of its target returned
DirectRow(ch, d, rd) ==
    [ts |-> MinuteStamp(block_end), channel |-> ch,
     old_code |-> last_code_by_ch[ch],
     new_code |-> PlanTargetDirect(ch, d),
     vlow_before |-> IF isnan(Get(last_meas_vlow_by_ch, ch, NaN))
                     THEN code_to_vlow(last_code_by_ch[ch])
                     ELSE last_meas_vlow_by_ch[ch],
     vlow_after |-> IF isnan(rd[2]) THEN code_to_vlow(PlanTargetDirect(ch, d))
                    ELSE rd[2],
     deltaT |-> d,
     high_voltage |-> rd[1],
     effective_bias |-> rd[3]]

\* backup main() lines 304-390: statistics, BME row, quality gates, and for
\* every channel in turn the plan, the anti dither checks, one apply of the
\* target, the update of the channel and its adjustment row.  The clock
\* runs while the targets are applied
ProcessBlockDirect ==
    /\ pc = "aggregate"
    /\ LET n_used == Len(block_rows)
           t_samples == [i \in 1..n_used |-> block_rows[i][1]]
           verdict == BlockVerdictDirect(block_rows)
       IN  /\ block_msg' = verdict
           /\ bme_rows' = IF block_rows # <<>> THEN bme_rows + 1 ELSE bme_rows
           /\ IF verdict # "none"
              THEN \* current_boundary = block_end; continue
                   /\ LoopTop(block_end)
                   /\ UNCHANGED <<dT, before_info, chanVars, adj_rows, adj_cycle,
                                  dac_code, gap_slept, now>>
              ELSE \E d \in {BlockDT(mean(t_samples))} :
                   \E pend \in {PendingSetDirect(d)} :
                   LET order == OrderOf(CHANNELS, pend)
                   IN  \E oks \in [pend -> BOOLEAN],
                          slow \in SlowCalls(DRY_RUN, Cardinality(pend)) :
                         LET rd == [ch \in pend |->
                                      set_dac_and_read(DRY_RUN, ch,
                                          PlanTargetDirect(ch, d), oks[ch])]
                         IN  /\ dT' = d
                             /\ now' = now + slow * DAC_TIMEOUT_SEC
                             /\ T_avg' = mean(t_samples)
                             /\ before_info' =
                                  [ch \in pend |->
                                     [code_prev |-> last_code_by_ch[ch],
                                      vlow_before |->
                                         DirectRow(ch, d, rd[ch]).vlow_before]]
                             /\ last_code_by_ch' =
                                  [ch \in DOMAIN last_code_by_ch |->
                                     IF ch \in pend THEN PlanTargetDirect(ch, d)
                                     ELSE last_code_by_ch[ch]]
                             /\ last_meas_hv_by_ch' =
                                  [ch \in DOMAIN last_meas_hv_by_ch |->
                                     IF ch \in pend THEN rd[ch][1]
                                     ELSE last_meas_hv_by_ch[ch]]
                             /\ last_meas_vbias_by_ch' =
                                  [ch \in DOMAIN last_meas_vbias_by_ch |->
                                     IF ch \in pend THEN rd[ch][3]
                                     ELSE last_meas_vbias_by_ch[ch]]
                             /\ last_meas_vlow_by_ch' =
                                  [ch \in DOMAIN last_meas_vlow_by_ch |->
                                     IF ch \in pend /\ ~isnan(rd[ch][2])
                                     THEN rd[ch][2]
                                     ELSE last_meas_vlow_by_ch[ch]]
                             /\ dac_code' =
                                  [ch \in DOMAIN dac_code |->
                                     IF ch \in pend THEN PlanTargetDirect(ch, d)
                                     ELSE dac_code[ch]]
                             /\ writes' =
                                  [ch \in DOMAIN writes |->
                                     IF ch \in pend THEN writes[ch] + 1
                                     ELSE writes[ch]]
                             /\ gap_slept' = (gap_slept /\ pend = {})
                             /\ adj_cycle' =
                                  [i \in 1..Len(order) |->
                                     DirectRow(order[i], d, rd[order[i]])]
                             /\ adj_rows' = adj_rows + Len(order)
                             /\ block_rows' = <<>>
                             /\ read_fails' = 0
                             /\ pc' = "realign"
                             /\ UNCHANGED <<vlow_ref_by_ch, blocks_done,
                                            current_boundary, block_end>>
    /\ UNCHANGED <<cfgVars, callVars, start_i, rampVars>>

\* backup main() line 392 and the loop top: current_boundary = block_end
RealignDirect ==
    /\ pc = "realign"
    /\ LoopTop(block_end)
    /\ dT' = Ratio(0, 1)
    /\ before_info' = Empty
    /\ ch_order' = <<>>
    /\ code_now' = Empty
    /\ code_tgt' = Empty
    /\ last_hv' = Empty
    /\ last_vlow' = Empty
    /\ last_vbias' = Empty
    /\ ramp_i' = 1
    /\ adj_cycle' = <<>>
    /\ UNCHANGED <<cfgVars, callVars, now, start_i, chanVars, bme_rows, adj_rows,
                   block_msg, dac_code, gap_slept>>

NextDirect ==
    \/ Align
    \/ ApplyStartCode
    \/ ReadSample
    \/ ProcessBlockDirect
    \/ RealignDirect

SpecDirect == Init /\ [][NextDirect]_vars

\* either policy: every block is handled by the one main() or the other;
\* the sampling loop, the same code in both, reads every sample, and no
\* call of dac.py takes time the sampling would notice
NextPolicies ==
    /\ \/ ProcessBlockDirect
       \/ RealignDirect
       \/ Next
    /\ read_fails' = 0
    /\ pc \in {"start", "aggregate"} => now' = now

SpecPolicies == Init /\ [][NextPolicies]_vars

\* ------------- ramp_codes_round_robin on arbitrary inputs --------------

\* start codes of the stand-alone ramps
RampCodes == {0, 300, 1023}

\* the non-empty channel lists, in ascending order as main() builds them
RampChannelSet == 0..(RampChannels - 1)
RampOrders ==
    {OrderOf([i \in 1..RampChannels |-> i - 1], S) :
        S \in (SUBSET RampChannelSet) \ {{}}}

\* targets at hand, one code or MaxRampDist codes away, on either side
RampTargets(c) ==
    {t \in {c - MaxRampDist, c - 1, c, c + 1, c + MaxRampDist} :
        t >= 0 /\ t <= 1023}

\* before the call: no channel state but the codes the DAC holds
InitRamp ==
    /\ DRY_RUN \in BOOLEAN
    /\ OUTLIER_FILTER_ENABLE = TRUE
    /\ OUTLIER_MIN_POINTS = MinPointsDefault
    /\ dac_found = TRUE
    /\ start_code_chs = ChannelSet
    /\ bme_found = TRUE
    /\ fatal_msg = "none"
    /\ read_fails = 0
    /\ T_avg = Ratio(0, 1)
    /\ call_arg = <<>>
    /\ call_ret = <<>>
    /\ pc = "call"
    /\ now = 0
    /\ current_boundary = 0
    /\ block_end = 0
    /\ start_i = 1
    /\ block_rows = <<>>
    /\ last_code_by_ch = Empty
    /\ vlow_ref_by_ch = Empty
    /\ last_meas_vlow_by_ch = Empty
    /\ last_meas_hv_by_ch = Empty
    /\ last_meas_vbias_by_ch = Empty
    /\ dT = Ratio(0, 1)
    /\ before_info = Empty
    /\ ch_order = <<>>
    /\ code_now = Empty
    /\ code_tgt = Empty
    /\ last_hv = Empty
    /\ last_vlow = Empty
    /\ last_vbias = Empty
    /\ ramp_i = 1
    /\ bme_rows = 0
    /\ adj_rows = 0
    /\ adj_cycle = <<>>
    /\ blocks_done = 0
    /\ block_msg = "none"
    /\ dac_code = Empty
    /\ writes = [ch \in RampChannelSet |-> 0]
    /\ gap_slept = FALSE

\* the call ramp_codes_round_robin(ch_order, code_start_by_ch,
\* code_target_by_ch), lines 195-208, with the DAC holding the start codes
RampCall ==
    /\ pc = "call"
    /\ \E order \in RampOrders :
         LET chs == {order[i] : i \in 1..Len(order)}
         IN  \E start \in [chs -> RampCodes] :
               \E target \in [chs -> UNION {RampTargets(c) : c \in RampCodes}
                                        \cup {280}] :
                  /\ \/ \A ch \in chs : target[ch] \in RampTargets(start[ch])
                     \/ \A ch \in chs : start[ch] = 300 /\ target[ch] = 280
                  /\ ch_order' = order
                  /\ last_code_by_ch' = start
                  /\ dac_code' = start
                  /\ code_now' = start
                  /\ code_tgt' = target
                  /\ last_hv' = [ch \in chs |-> NaN]
                  /\ last_vlow' = [ch \in chs |-> NaN]
                  /\ last_vbias' = [ch \in chs |-> NaN]
                  /\ ramp_i' = 1
                  /\ pc' = IF any_pending(start, target, order) THEN "ramp" ELSE "log"
    /\ UNCHANGED <<cfgVars, callVars, read_fails, T_avg,
                   timeVars, start_i, block_rows, vlow_ref_by_ch,
                   last_meas_vlow_by_ch, last_meas_hv_by_ch,
                   last_meas_vbias_by_ch, dT, before_info, logVars, blocks_done,
                   block_msg, writes, gap_slept>>

NextRamp == RampCall \/ RampStep

SpecRamp == InitRamp /\ [][NextRamp]_vars

\* the call returns: a write that is due is issued (the subprocess call has
\* a timeout, the gap sleep is finite)
FairSpecRamp == SpecRamp /\ WF_vars(RampStep)

\* ---------------------- the state main() starts in ---------------------

\* the state of main() before it has read, written or logged anything
Fresh ==
    /\ read_fails = 0
    /\ T_avg = Ratio(0, 1)
    /\ now = 0
    /\ current_boundary = 0
    /\ block_end = 0
    /\ start_i = 1
    /\ last_code_by_ch = Empty
    /\ vlow_ref_by_ch = Empty
    /\ last_meas_vlow_by_ch = Empty
    /\ last_meas_hv_by_ch = Empty
    /\ last_meas_vbias_by_ch = Empty
    /\ dT = Ratio(0, 1)
    /\ before_info = Empty
    /\ ch_order = <<>>
    /\ code_now = Empty
    /\ code_tgt = Empty
    /\ last_hv = Empty
    /\ last_vlow = Empty
    /\ last_vbias = Empty
    /\ ramp_i = 1
    /\ bme_rows = 0
    /\ adj_rows = 0
    /\ adj_cycle = <<>>
    /\ blocks_done = 0
    /\ block_msg = "none"
    /\ dac_code = Empty
    /\ writes = NoWrites
    /\ gap_slept = FALSE

\* what the startup checks, and a function called on its own, leave alone
mainVars == <<read_fails, T_avg, timeVars, start_i, chanVars, dT, before_info,
              rampVars, logVars, blocks_done, block_msg, dacVars>>

\* ------------------ main() in a room of one temperature ----------------

\* main() is started SteadyBlocks windows before time 0; call_arg holds the
\* temperature every reading returns
InitSteady ==
    /\ read_fails = 0
    /\ T_avg = Ratio(0, 1)
    /\ now = -SteadyBlocks * LOG_BLOCK_SEC
    /\ current_boundary = 0
    /\ block_end = 0
    /\ start_i = 1
    /\ last_code_by_ch = Empty
    /\ vlow_ref_by_ch = Empty
    /\ last_meas_vlow_by_ch = Empty
    /\ last_meas_hv_by_ch = Empty
    /\ last_meas_vbias_by_ch = Empty
    /\ dT = Ratio(0, 1)
    /\ before_info = Empty
    /\ ch_order = <<>>
    /\ code_now = Empty
    /\ code_tgt = Empty
    /\ last_hv = Empty
    /\ last_vlow = Empty
    /\ last_vbias = Empty
    /\ ramp_i = 1
    /\ bme_rows = 0
    /\ adj_rows = 0
    /\ adj_cycle = <<>>
    /\ blocks_done = 0
    /\ block_msg = "none"
    /\ dac_code = Empty
    /\ writes = NoWrites
    /\ gap_slept = FALSE
    /\ DRY_RUN \in BOOLEAN
    /\ OUTLIER_FILTER_ENABLE = TRUE
    /\ OUTLIER_MIN_POINTS = MinPointsDefault
    /\ dac_found = TRUE
    /\ start_code_chs = ChannelSet
    /\ bme_found = TRUE
    /\ fatal_msg = "none"
    /\ call_arg \in {<<t>> : t \in TempSet}
    /\ call_ret = <<>>
    /\ pc = "align"
    /\ block_rows = <<>>

\* main() with every reading successful and at the temperature of the room
NextSteady ==
    /\ Next
    /\ read_fails' = 0
    /\ \A i \in DOMAIN block_rows' : block_rows'[i][1] = call_arg[1]

SpecSteady == InitSteady /\ [][NextSteady]_vars

\* ------------------------- main() from its start -----------------------

\* variant: a missing DAC script is fatal in simulate-only mode too
StartupVerdictNoDry(dry, found, chs, bme) ==
    IF ~found THEN "dac.py not found"
    ELSE IF \E ch \in ChannelSet : ch \notin chs
    THEN "Missing START_CODES entry"
    ELSE IF ~bme THEN "BME280 init failed"
    ELSE "none"
\* main() lines 292-302 and init_bme() lines 269-271: the [fatal] message
\* main() exits with, "none" when it goes on to the loop
StartupVerdict(dry, found, chs, bme) ==
    IF ~found /\ ~dry THEN "dac.py not found"
    ELSE IF \E ch \in ChannelSet : ch \notin chs
    THEN "Missing START_CODES entry"
    ELSE IF ~bme THEN "BME280 init failed"
    ELSE "none"

\* the process starts: any environment
InitBoot ==
    /\ Fresh
    /\ DRY_RUN \in BOOLEAN
    /\ OUTLIER_FILTER_ENABLE = TRUE
    /\ OUTLIER_MIN_POINTS = MinPointsDefault
    /\ dac_found \in BOOLEAN
    /\ start_code_chs \in SUBSET ChannelSet
    /\ bme_found \in BOOLEAN
    /\ fatal_msg = "none"
    /\ call_arg = <<>>
    /\ call_ret = <<>>
    /\ pc = "boot"
    /\ block_rows = <<>>

\* main() lines 292-340: the checks, then sys.exit(1) or the log files and
\* on to the alignment
StartupCheck ==
    /\ pc = "boot"
    /\ fatal_msg' = StartupVerdict(DRY_RUN, dac_found, start_code_chs, bme_found)
    /\ pc' = IF fatal_msg' = "none" THEN "align" ELSE "fatal"
    /\ UNCHANGED <<DRY_RUN, OUTLIER_FILTER_ENABLE, OUTLIER_MIN_POINTS,
                   dac_found, start_code_chs, bme_found, callVars, block_rows,
                   mainVars>>

NextBoot == StartupCheck \/ Next

SpecBoot == InitBoot /\ [][NextBoot]_vars

\* ------------- the start codes of a longer channel list ----------------

\* CHANNELS and START_CODES with RampChannels channels
StartChannels == [i \in 1..RampChannels |-> i - 1]
StartChannelCodes == [ch \in RampChannelSet |-> 753]

InitStart ==
    /\ DRY_RUN \in BOOLEAN
    /\ OUTLIER_FILTER_ENABLE = TRUE
    /\ OUTLIER_MIN_POINTS = MinPointsDefault
    /\ dac_found = TRUE
    /\ start_code_chs = RampChannelSet
    /\ bme_found = TRUE
    /\ fatal_msg = "none"
    /\ read_fails = 0
    /\ T_avg = Ratio(0, 1)
    /\ call_arg = <<>>
    /\ call_ret = <<>>
    /\ pc = "align"
    /\ now \in StartTimes
    /\ current_boundary = 0
    /\ block_end = 0
    /\ start_i = 1
    /\ block_rows = <<>>
    /\ last_code_by_ch = Empty
    /\ vlow_ref_by_ch = Empty
    /\ last_meas_vlow_by_ch = Empty
    /\ last_meas_hv_by_ch = Empty
    /\ last_meas_vbias_by_ch = Empty
    /\ dT = Ratio(0, 1)
    /\ before_info = Empty
    /\ ch_order = <<>>
    /\ code_now = Empty
    /\ code_tgt = Empty
    /\ last_hv = Empty
    /\ last_vlow = Empty
    /\ last_vbias = Empty
    /\ ramp_i = 1
    /\ bme_rows = 0
    /\ adj_rows = 0
    /\ adj_cycle = <<>>
    /\ blocks_done = 0
    /\ block_msg = "none"
    /\ dac_code = Empty
    /\ writes = [ch \in RampChannelSet |-> 0]
    /\ gap_slept = FALSE

AlignStart == AlignOf(StartChannelCodes)
ApplyStartCodeStart == ApplyStartCodeOf(StartChannels)

\* startup and the sampling of the first block
NextStart == AlignStart \/ ApplyStartCodeStart \/ ReadSample

SpecStart == InitStart /\ [][NextStart]_vars

\* main() with the longer channel list
ProcessBlockStart == ProcessBlockOf(StartChannels)

\* readings close to REF_TEMP_C, where the planned steps are about
\* MIN_STEP_CODES long and the anti dither checks decide, in 0.01 C
DitherTemps == {2020, 2030}

NextChannels ==
    /\ \/ AlignStart
       \/ ApplyStartCodeStart
       \/ ReadSample
       \/ ProcessBlockStart
       \/ RampStep
       \/ LogAdjustments
       \/ Realign
    /\ \A i \in DOMAIN block_rows' : block_rows'[i][1] \in DitherTemps

SpecChannels == InitStart /\ [][NextChannels]_vars

\* ---------------- filter_temp_outliers on arbitrary blocks --------------

\* temperatures of the blocks handed to the filter, in 0.01 C
FilterTemps == {2000, 2010, 3500}

InitFilter ==
    /\ Fresh
    /\ DRY_RUN = TRUE
    /\ OUTLIER_FILTER_ENABLE \in BOOLEAN
    /\ OUTLIER_MIN_POINTS = MinPointsDefault
    /\ dac_found = TRUE
    /\ start_code_chs = ChannelSet
    /\ bme_found = TRUE
    /\ fatal_msg = "none"
    /\ call_arg = <<>>
    /\ call_ret = <<>>
    /\ pc = "block"
    /\ block_rows = <<>>

\* the block grows by one row, as in main() line 380
FilterRow ==
    /\ pc = "block"
    /\ Len(block_rows) < MaxFilterLen
    /\ \E t \in FilterTemps, p \in PressSet, h \in HumSet :
         block_rows' = Append(block_rows, <<t, p, h>>)
    /\ UNCHANGED <<cfgVars, callVars, pc, mainVars>>

\* main() lines 393-395: filtered_rows, removed_count =
\* filter_temp_outliers(block_rows)
FilterCall ==
    /\ pc = "block"
    /\ call_arg' = block_rows
    /\ call_ret' = filter_temp_outliers(block_rows)
    /\ pc' = "filtered"
    /\ UNCHANGED <<cfgVars, block_rows, mainVars>>

NextFilter == FilterRow \/ FilterCall

SpecFilter == InitFilter /\ [][NextFilter]_vars

\* ------------- code_to_vlow and vlow_to_code on every code -------------

InitCal ==
    /\ Fresh
    /\ DRY_RUN = TRUE
    /\ OUTLIER_FILTER_ENABLE = TRUE
    /\ OUTLIER_MIN_POINTS = MinPointsDefault
    /\ dac_found = TRUE
    /\ start_code_chs = ChannelSet
    /\ bme_found = TRUE
    /\ fatal_msg = "none"
    /\ call_arg = <<>>
    /\ call_ret = <<>>
    /\ pc = "cal"
    /\ block_rows = <<>>

\* v = code_to_vlow(c) and then vlow_to_code(v), for a 10-bit code c
CalCall ==
    /\ pc = "cal"
    /\ \E c \in 0..1023 :
         /\ call_arg' = <<c>>
         /\ call_ret' = <<code_to_vlow(c),
                           vlow_to_code_fine(code_to_vlow_fine(c))>>
    /\ pc' = "calibrated"
    /\ UNCHANGED <<cfgVars, block_rows, mainVars>>

NextCal == CalCall

SpecCal == InitCal /\ [][NextCal]_vars

\* ------------------------------ properties -----------------------------

\* the code a channel had when the block of the current cycle was planned
CodeBefore(ch) ==
    IF ch \in DOMAIN before_info THEN before_info[ch].code_prev
    ELSE last_code_by_ch[ch]

\* the unclamped target code of a channel in the current cycle
TargetUnclamped(ch) == CodeTgtAbs(vlow_ref_by_ch[ch], BlockDV(dT))

\* the target code of a channel in the current cycle, by the compensation law
TargetOfCycle(ch) ==
    LET prev == CodeBefore(ch)
        delta == clamp(TargetUnclamped(ch) - prev,
                       -MAX_CODES_STEP_PER_BLOCK, MAX_CODES_STEP_PER_BLOCK)
    IN  clamp(prev + delta, 0, 1023)

\* the block fails the quality gate: too few usable samples or too noisy
GateRejects(rows) ==
    LET used == filter_temp_outliers(rows)[1]
    IN  \/ Len(used) < MIN_SAMPLES_PER_BLOCK
        \/ pstdev_gt([i \in 1..Len(used) |-> used[i][1]], T_STD_MAX_C)

\* C1: every channel's last_applied_code, and every code handed to the
\* actuator (each ramp step included), is an integer in 0..1023.
C1_CodesInRange ==
    /\ \A ch \in DOMAIN last_code_by_ch : last_code_by_ch[ch] \in 0..1023
    /\ \A ch \in DOMAIN dac_code : dac_code[ch] \in 0..1023
    /\ \A ch \in DOMAIN code_now : code_now[ch] \in 0..1023

\* a ramp whose last write failed has been taken over into the channel state
C1_Witness ==
    /\ pc = "realign"
    /\ ~DRY_RUN
    /\ \E ch \in DOMAIN before_info :
         /\ last_code_by_ch[ch] # before_info[ch].code_prev
         /\ dac_code[ch] = last_code_by_ch[ch]
         /\ isnan(last_meas_hv_by_ch[ch])

\* C2: no step of the loop, hence no block, moves a channel's
\* last_applied_code by more than MAX_CODES_STEP_PER_BLOCK.
C2_StepBounded ==
    [][\A ch \in DOMAIN last_code_by_ch :
          Abs(last_code_by_ch'[ch] - last_code_by_ch[ch])
              <= MAX_CODES_STEP_PER_BLOCK]_vars

\* a block has moved a channel by exactly the limit
C2_Witness ==
    /\ pc = "realign"
    /\ \E ch \in DOMAIN before_info :
         Abs(last_code_by_ch[ch] - before_info[ch].code_prev)
             = MAX_CODES_STEP_PER_BLOCK

\* C3: processing a block that fails the quality gate writes no code to the
\* DAC, changes no field of any channel, appends no adjustment row, and
\* takes the loop to the next window.
C3_RejectedBlockInert ==
    [][(pc = "aggregate" /\ GateRejects(block_rows)) =>
          /\ chanVars' = chanVars
          /\ dac_code' = dac_code
          /\ writes' = NoWrites
          /\ adj_rows' = adj_rows
          /\ adj_cycle' = adj_cycle
          /\ pc' = "collect"
          /\ current_boundary' = block_end
          /\ block_end' = block_end + LOG_BLOCK_SEC
          /\ block_rows' = <<>>]_vars

\* a block with enough samples was skipped as too noisy
C3_Witness ==
    /\ pc = "collect"
    /\ block_msg = "std_high"
    /\ blocks_done = 1
    /\ adj_rows = 0
    /\ \A ch \in ChannelSet : last_code_by_ch[ch] = START_CODES[ch]

\* C4: adjustment rows exist only after the ramp of a block that main()
\* acted on, and it acts only on blocks that pass the quality gate; each
\* row's channel passed both anti dither thresholds and holds the row's new
\* code; no channel has two rows in one block.
C4_RowsOnlyAfterGates ==
    /\ [][(pc = "aggregate" /\ GateRejects(block_rows)) =>
             (block_msg' # "none" /\ pc' = "collect")]_vars
    /\ [][adj_cycle' # adj_cycle /\ adj_cycle' # <<>> =>
             (pc = "log" /\ adj_cycle = <<>>)]_vars
    /\ [](adj_cycle # <<>> =>
            /\ pc = "realign"
            /\ block_msg = "none"
            /\ \A i \in 1..Len(adj_cycle) :
                 LET r == adj_cycle[i]
                 IN  /\ Abs(r.new_code - r.old_code) >= MIN_STEP_CODES
                     /\ Abs(code_to_vlow(r.new_code) - code_to_vlow(r.old_code))
                            >= MIN_STEP_VOLTS
                     /\ \A ch \in DOMAIN code_now : code_now[ch] = code_tgt[ch]
                     /\ code_tgt[r.channel] = r.new_code
                     /\ dac_code[r.channel] = r.new_code
                     /\ last_code_by_ch[r.channel] = r.new_code
                     /\ \A j \in 1..Len(adj_cycle) :
                          j # i => adj_cycle[j].channel # r.channel)

\* every channel got its row in one block
C4_Witness ==
    /\ pc = "realign"
    /\ Len(adj_cycle) = NumChannels
    /\ adj_rows = NumChannels

\* C5: at the end of an accepted block a channel's code has changed exactly
\* when its target is at least MIN_STEP_CODES codes and MIN_STEP_VOLTS volts
\* away from the code it had, and then the code is the target.
C5_AntiDitherIff ==
    pc = "realign" =>
      \A ch \in ChannelSet :
         LET prev == CodeBefore(ch)
             tgt == TargetOfCycle(ch)
             far == /\ Abs(tgt - prev) >= MIN_STEP_CODES
                    /\ Abs(code_to_vlow(tgt) - code_to_vlow(prev)) >= MIN_STEP_VOLTS
         IN  /\ (last_code_by_ch[ch] # prev) <=> far
             /\ far => last_code_by_ch[ch] = tgt

\* an accepted block has left a channel MIN_STEP_CODES - 1 codes from its
\* target where it was
C5_Witness ==
    /\ pc = "realign"
    /\ block_msg = "none"
    /\ \E ch \in ChannelSet :
         /\ Abs(TargetOfCycle(ch) - CodeBefore(ch)) = MIN_STEP_CODES - 1
         /\ last_code_by_ch[ch] = CodeBefore(ch)

\* C6: the ramp writes each channel exactly |target - start| times, each
\* write one code from the channel's previous code and between start and
\* target, and it returns with every channel at its target.
C6_RampExact ==
    /\ [](pc = "log" =>
            \A ch \in DOMAIN code_now :
               /\ code_now[ch] = code_tgt[ch]
               /\ dac_code[ch] = code_tgt[ch]
               /\ writes[ch] = Abs(code_tgt[ch] - last_code_by_ch[ch]))
    /\ [][\A ch \in DOMAIN code_now :
            writes'[ch] # writes[ch] =>
               /\ writes'[ch] = writes[ch] + 1
               /\ Abs(dac_code'[ch] - dac_code[ch]) = 1
               /\ dac_code'[ch] = code_now'[ch]
               /\ Abs(dac_code'[ch] - code_tgt[ch])
                      = Abs(dac_code[ch] - code_tgt[ch]) - 1
               /\ Min(last_code_by_ch[ch], code_tgt[ch]) <= dac_code'[ch]
               /\ dac_code'[ch] <= Max(last_code_by_ch[ch], code_tgt[ch])]_vars

\* channels [0, 1] have been ramped from 300 to 280 with 20 writes each
C6_Witness ==
    /\ pc = "log"
    /\ ch_order = <<0, 1>>
    /\ \A ch \in {0, 1} :
         /\ last_code_by_ch[ch] = 300
         /\ code_now[ch] = 280
         /\ writes[ch] = 20

\* C7: every ramp returns: whatever the start and target codes and whatever
\* the outcome of each write, all channels reach their targets.
C7_RampTerminates ==
    (pc = "ramp") ~>
        (pc = "log" /\ \A ch \in DOMAIN code_now : code_now[ch] = code_tgt[ch])

\* a ramp has returned although a write gave no readings
C7_Witness ==
    /\ pc = "log"
    /\ ~DRY_RUN
    /\ \E ch \in DOMAIN code_now :
         /\ writes[ch] > 1
         /\ isnan(last_vlow[ch])

\* C8: a channel's reference voltage is set while the start codes are
\* applied and is never changed afterwards.
C8_RefVoltageFixed ==
    /\ [](pc \notin {"align", "start"} => DOMAIN vlow_ref_by_ch = ChannelSet)
    /\ [][/\ \A ch \in DOMAIN vlow_ref_by_ch :
               /\ ch \in DOMAIN vlow_ref_by_ch'
               /\ vlow_ref_by_ch'[ch] = vlow_ref_by_ch[ch]
          /\ vlow_ref_by_ch' # vlow_ref_by_ch => pc = "start"]_vars

\* a ramp has left a channel with a measured voltage other than its reference
C8_Witness ==
    /\ pc = "realign"
    /\ \E ch \in DOMAIN before_info :
         /\ ~isnan(last_vlow[ch])
         /\ last_meas_vlow_by_ch[ch] = last_vlow[ch]
         /\ <<last_meas_vlow_by_ch[ch], 0>> # vlow_ref_by_ch[ch]

\* C9 as stated: whenever the loop is at a window's start, the BME log has
\* one row for every window completed so far.
C9_OneRowPerWindow ==
    pc = "collect" => bme_rows = blocks_done

\* C9 amended: a row is appended exactly when a block with at least one
\* usable sample is processed - also when the block is then rejected as too
\* small or too noisy - and never otherwise.
C9_OneRowPerUsableBlock ==
    [][bme_rows' = bme_rows +
          (IF pc = "aggregate" /\ Len(filter_temp_outliers(block_rows)[1]) > 0
           THEN 1 ELSE 0)]_vars

\* a rejected block has left its row in the BME log
C9_Witness ==
    /\ pc = "collect"
    /\ block_msg \in {"too_few", "std_high"}
    /\ blocks_done = 1
    /\ bme_rows = 1

\* C10: when the unclamped target is more than MAX_CODES_STEP_PER_BLOCK
\* codes away, the block moves the channel by exactly that many codes
\* toward it.
C10_StepLimited ==
    pc = "realign" =>
      \A ch \in ChannelSet :
         LET prev == CodeBefore(ch)
             far == TargetUnclamped(ch) - prev
         IN  /\ far > MAX_CODES_STEP_PER_BLOCK =>
                  last_code_by_ch[ch] = prev + MAX_CODES_STEP_PER_BLOCK
             /\ far < -MAX_CODES_STEP_PER_BLOCK =>
                  last_code_by_ch[ch] = prev - MAX_CODES_STEP_PER_BLOCK

\* a target far above the code has moved the channel up by the limit
C10_Witness ==
    /\ pc = "realign"
    /\ \E ch \in ChannelSet :
         /\ TargetUnclamped(ch) - CodeBefore(ch) > MAX_CODES_STEP_PER_BLOCK
         /\ last_code_by_ch[ch] = CodeBefore(ch) + MAX_CODES_STEP_PER_BLOCK

\* a block of 9 samples at 20.00 C and 1 sample at 35.00 C, in any order
NineAndOne(rows) ==
    /\ Len(rows) = 10
    /\ Cardinality({i \in 1..10 : rows[i][1] = 3500}) = 1
    /\ Cardinality({i \in 1..10 : rows[i][1] = 2000}) = 9

\* C11: of a block of 9 samples at 20.00 C and 1 at 35.00 C the enabled
\* filter removes the 35.00 C sample (1 removed, 9 used); a disabled filter,
\* and any filter on a block below OUTLIER_MIN_POINTS samples, returns the
\* block as it is.
C11_OutlierRemoved ==
    pc = "filtered" =>
        /\ (NineAndOne(call_arg) /\ OUTLIER_FILTER_ENABLE) =>
              /\ call_ret[2] = 1
              /\ Len(call_ret[1]) = 9
              /\ \A i \in 1..Len(call_ret[1]) : call_ret[1][i][1] = 2000
        /\ ((~OUTLIER_FILTER_ENABLE) \/ Len(call_arg) < OUTLIER_MIN_POINTS) =>
              call_ret = <<call_arg, 0>>

\* C12 as stated: for every code c in [0,1023],
\* vlow_to_code(code_to_vlow(c)) differs from c by at most 1.
C12_RoundTripAll ==
    pc = "calibrated" => Abs(call_ret[2] - call_arg[1]) <= 1

\* C12: for every code c in [10,1023] vlow_to_code(code_to_vlow(c)) = c;
\* for every code c in [0,9] code_to_vlow(c) is clamped to 0 V and
\* vlow_to_code(code_to_vlow(c)) = 10, which is within 1 of c only for c = 9.
C12_RoundTrip ==
    pc = "calibrated" =>
        IF call_arg[1] >= 10 THEN call_ret[2] = call_arg[1]
        ELSE call_ret = <<0, 10>>

\* code 9 went through both functions: 0 V, then code 10
C12_Witness ==
    /\ pc = "calibrated"
    /\ call_arg = <<9>>
    /\ call_ret = <<0, 10>>

\* the channels whose latest write of the ramp gave no reading at all
NoReadingChs ==
    {ch \in {ch_order[i] : i \in 1..Len(ch_order)} :
        isnan(last_hv[ch]) /\ isnan(last_vlow[ch]) /\ isnan(last_vbias[ch])}

\* C13: when the apply that ended a channel's ramp returned no valid
\* readings, the update after the ramp sets the channel's last applied code
\* but leaves its last measured low-side voltage, high voltage and bias at
\* the values they had before.
C13_MeasuredRetained ==
    [][pc = "log" =>
         \A ch \in NoReadingChs :
            /\ last_code_by_ch'[ch] = code_now[ch]
            /\ last_meas_vlow_by_ch'[ch] = last_meas_vlow_by_ch[ch]
            /\ last_meas_hv_by_ch'[ch] = last_meas_hv_by_ch[ch]
            /\ last_meas_vbias_by_ch'[ch] = last_meas_vbias_by_ch[ch]]_vars

\* temperatures of the rows of a block
TempsOf(rows) == [i \in 1..Len(rows) |-> rows[i][1]]

\* four times the median absolute deviation of the temperatures from their
\* median
Mad4Of(rows) ==
    LET med2 == median2(TempsOf(rows))
    IN  median2([i \in 1..Len(rows) |-> Abs(2 * rows[i][1] - med2)])

\* the filter leaves the block alone: switched off, too few rows, or zero MAD
PassesThrough(rows) ==
    \/ ~OUTLIER_FILTER_ENABLE
    \/ Len(rows) < OUTLIER_MIN_POINTS
    \/ Mad4Of(rows) = 0

\* the rows within OUTLIER_MAD_Z * 1.4826 * MAD of the median, in order
RowsWithinMad(rows) ==
    LET med2 == median2(TempsOf(rows))
        mad4 == Mad4Of(rows)
        Near(r) == 20000 * Abs(2 * r[1] - med2)
                       <= ((OUTLIER_MAD_Z * MadScale) \div 10) * mad4
    IN  SelectSeq(rows, Near)

\* the rows of a block the aggregation uses: all of them when the outlier
\* filter leaves the block alone, else those within the MAD limit
RowsAggregated(rows) ==
    IF PassesThrough(rows) THEN rows ELSE RowsWithinMad(rows)

\* every pass of the sampling loop either fails (one more warning, the rows
\* as they were) or appends the row read; it goes on to the aggregation
\* exactly when the block end is reached, else it polls again; the program
\* does not exit.  A block starts without rows, so that its rows are at any
\* time the rows of its reads that succeeded, in their order
ReadFailureDropsSample ==
    /\ [][pc = "collect" =>
            /\ \/ /\ read_fails' = read_fails + 1
                  /\ block_rows' = block_rows
               \/ /\ read_fails' = read_fails
                  /\ Len(block_rows') = Len(block_rows) + 1
                  /\ SubSeq(block_rows', 1, Len(block_rows)) = block_rows
                  /\ block_rows'[Len(block_rows')] \in TempSet \X PressSet \X HumSet
            /\ pc' = (IF now >= block_end THEN "aggregate" ELSE "collect")
            /\ fatal_msg' = "none"]_vars
    /\ [][pc # "collect" /\ pc' = "collect" =>
            block_rows' = <<>> /\ read_fails' = 0]_vars
    /\ [](\A i \in 1..Len(block_rows) :
             block_rows[i] \in TempSet \X PressSet \X HumSet)

\* C14 as stated: a failed sensor read adds no row to the block and does not
\* end the program, the loop polls on until the block end, and the block is
\* aggregated over exactly the rows of the reads that succeeded: the mean
\* temperature of a block that is acted on is the mean over all its rows.
C14_AggregatesAllReads ==
    /\ ReadFailureDropsSample
    /\ [][pc = "aggregate" /\ block_msg' = "none" /\ pc' # "collect" =>
            T_avg' = mean(TempsOf(block_rows))]_vars

\* C14: a failed sensor read adds no row to the block and does not end the
\* program: every pass of the sampling loop either fails (one more warning,
\* the rows as they were) or appends the row read, and the loop goes on to
\* the aggregation exactly when the block end is reached, else it polls
\* again.  The block is aggregated over the rows of the reads that succeeded
\* which the outlier filter keeps: over all of them when the filter is off,
\* the block has fewer than OUTLIER_MIN_POINTS rows or the MAD of its
\* temperatures is zero, else over those within OUTLIER_MAD_Z * 1.4826 * MAD
\* of the median.  A block with no row, or with no row kept, is skipped; of
\* a block that is acted on the mean temperature is the mean over these
\* rows.
C14_ReadFailureDropsSample ==
    /\ ReadFailureDropsSample
    /\ [][pc = "aggregate" =>
            \A used \in {RowsAggregated(block_rows)} :
                /\ fatal_msg' = "none"
                /\ used = <<>> => pc' = "collect" /\ bme_rows' = bme_rows
                /\ used # <<>> => bme_rows' = bme_rows + 1
                /\ (block_msg' = "none" /\ pc' # "collect") =>
                      /\ used # <<>>
                      /\ T_avg' = mean(TempsOf(used))]_vars

\* a block with a read that failed has reached the aggregation with the rows
\* 20.20 C, 20.30 C and 35.00 C of the reads that succeeded; the filter
\* keeps the first two of them and the block passes the quality checks
C14_Witness ==
    /\ pc = "aggregate"
    /\ read_fails >= 1
    /\ TempsOf(block_rows) = <<2020, 2030, 3500>>
    /\ TempsOf(RowsAggregated(block_rows)) = <<2020, 2030>>
    /\ BlockVerdict(block_rows) = "none"

\* C15: with a configured channel that has no start code main() exits at
\* startup; with the DAC script missing it exits at startup unless DRY_RUN
\* is set, and then it goes on.  An exit is final and comes before any DAC
\* write, any block and any log row; the loop is entered only with a start
\* code for every channel and with the DAC script or DRY_RUN.
C15_StartupFatal ==
    /\ [][pc = "boot" =>
            /\ (ChannelSet \ start_code_chs # {}) => pc' = "fatal"
            /\ (~dac_found /\ ~DRY_RUN) => pc' = "fatal"
            /\ (~dac_found /\ DRY_RUN /\ ChannelSet \subseteq start_code_chs
                  /\ bme_found) => pc' = "align"]_vars
    /\ [][pc # "fatal"]_vars
    /\ [](pc \in {"boot", "fatal"} =>
            /\ dac_code = Empty
            /\ writes = NoWrites
            /\ blocks_done = 0
            /\ bme_rows = 0
            /\ adj_rows = 0)
    /\ [](pc \notin {"boot", "fatal"} =>
            /\ ChannelSet \subseteq start_code_chs
            /\ dac_found \/ DRY_RUN)

\* without the DAC script, in simulate-only mode, the loop is sampling and
\* the start code has been applied
C15_Witness ==
    /\ pc = "collect"
    /\ ~dac_found
    /\ DRY_RUN
    /\ dac_code # Empty

\* C16: during a ramp every DAC write, the last one of the ramp included,
\* is followed by the write gap sleep before anything else is done.
C16_GapAfterEveryWrite ==
    [][(pc = "ramp" /\ writes' # writes) => gap_slept']_vars

\* the compensation law: the code a channel at code last with reference
\* voltage ref is planned to after a block of mean temperature tavg; first
\* the deviation of tavg from REF_TEMP_C, clamped to MAX_DT_ABS_C
ClampedDeviation(tavg) ==
    LET x == tavg[1] - REF_TEMP_C * tavg[2]
    IN  IF x > MAX_DT_ABS_C * tavg[2] THEN Ratio(MAX_DT_ABS_C, 1)
        ELSE IF x < -MAX_DT_ABS_C * tavg[2] THEN Ratio(-MAX_DT_ABS_C, 1)
        ELSE Ratio(x, tavg[2])
CompensationLaw(last, ref, tavg) ==
    LET dTc == ClampedDeviation(tavg)
        target == vlow_to_code_fine(FineShift(ref, BlockDV(dTc)[1], dTc[2]))
    IN  clamp(last + clamp(target - last, -MAX_CODES_STEP_PER_BLOCK,
                           MAX_CODES_STEP_PER_BLOCK), 0, 1023)

\* C17: after an accepted block of mean temperature T_avg, dT is
\* T_avg - REF_TEMP_C clamped to MAX_DT_ABS_C, and every channel whose
\* planned code passes the anti dither checks is at
\* clamp(last + clamp(inverse(ref - coeff * dT) - last, -max_step, max_step),
\* 0, 1023).  With a mean of 25.00 C, code 753 and the reference voltage
\* code_to_vlow(753): dT = 5.0 C, the shift is -0.27 V, the new code is 636.
C17_CompensationLaw ==
    pc = "realign" =>
      /\ dT = ClampedDeviation(T_avg)
      /\ \A ch \in ChannelSet :
           LET prev == CodeBefore(ch)
               law == CompensationLaw(prev, vlow_ref_by_ch[ch], T_avg)
           IN  /\ AntiDitherPass(prev, law) => last_code_by_ch[ch] = law
               /\ (/\ T_avg = Ratio(2500, 1)
                   /\ prev = 753
                   /\ vlow_ref_by_ch[ch] = code_to_vlow_fine(753)) =>
                     /\ dT = Ratio(500, 1)
                     /\ BlockDV(dT) = <<-27000000, 1>>
                     /\ vlow_to_code(code_to_vlow(753) - 27000000) = 636
                     /\ last_code_by_ch[ch] = 636

\* a block of mean 25.00 C has taken a channel from 753 to 636
C17_Witness ==
    /\ pc = "realign"
    /\ T_avg = Ratio(2500, 1)
    /\ \E ch \in DOMAIN before_info :
         /\ before_info[ch].code_prev = 753
         /\ vlow_ref_by_ch[ch] = code_to_vlow_fine(753)
         /\ last_code_by_ch[ch] = 636

\* the code the simulate-only run leaves a channel at after its first
\* accepted block, of mean temperature tavg
DryRunCode(ch, tavg) ==
    LET prev == START_CODES[ch]
        law == CompensationLaw(prev, code_to_vlow_fine(prev), tavg)
    IN  IF AntiDitherPass(prev, law) THEN law ELSE prev

\* C18: in simulate-only mode every apply returns code_to_vlow(code) as the
\* low-side voltage, and a run with the real DAC takes each channel through
\* the same codes as the simulate-only run given the same block statistics:
\* after the first accepted block every channel is at the code the
\* simulate-only run puts it at.
C18_DryRunEquivalent ==
    /\ DRY_RUN =>
         /\ \A ch \in DOMAIN vlow_ref_by_ch :
              vlow_ref_by_ch[ch] = code_to_vlow_fine(START_CODES[ch])
         /\ \A ch \in DOMAIN last_vlow :
              isnan(last_vlow[ch]) \/ last_vlow[ch] = code_to_vlow(code_now[ch])
    /\ (pc = "realign" /\ blocks_done = 0) =>
         \A ch \in ChannelSet : last_code_by_ch[ch] = DryRunCode(ch, T_avg)

\* the positions in ch_order of the channels not yet at their targets
StillPending ==
    {i \in 1..Len(ch_order) : code_now[ch_order[i]] # code_tgt[ch_order[i]]}

\* C19: while a ramp runs, of any two channels still short of their targets
\* the one earlier in the channel list has been written as often as the
\* later one or once more: each sweep writes every pending channel once, in
\* list order, and the step counts of pending channels differ by at most 1.
C19_RoundRobinFair ==
    pc = "ramp" =>
      \A i \in StillPending : \A j \in StillPending :
         i < j =>
           writes[ch_order[i]] - writes[ch_order[j]] \in {0, 1}

\* in the second sweep over channels [0, 1]: channel 0 written twice,
\* channel 1 once, both still short of their targets
C19_Witness ==
    /\ pc = "ramp"
    /\ ch_order = <<0, 1>>
    /\ StillPending = {1, 2}
    /\ writes[0] = 2
    /\ writes[1] = 1

\* C20: current_boundary and block_end are always multiples of
\* LOG_BLOCK_SEC; every cycle of the loop, whether its block was empty,
\* rejected or accepted and however long its ramp took, opens a window
\* whose end is current_boundary + LOG_BLOCK_SEC and later than the end of
\* the window before; after an accepted block the new boundary is
\* floor(now / LOG_BLOCK_SEC) * LOG_BLOCK_SEC.
C20_BoundariesOnGrid ==
    /\ [](/\ current_boundary % LOG_BLOCK_SEC = 0
          /\ block_end % LOG_BLOCK_SEC = 0)
    /\ [][(pc # "collect" /\ pc' = "collect") =>
            /\ block_end' > block_end
            /\ block_end' = current_boundary' + LOG_BLOCK_SEC]_vars
    /\ [][block_end' # block_end => (pc # "collect" /\ pc' = "collect")]_vars
    /\ [][pc = "realign" =>
            /\ pc' = "collect"
            /\ current_boundary' = (now' \div LOG_BLOCK_SEC) * LOG_BLOCK_SEC
            /\ current_boundary' >= block_end]_vars

\* a ramp longer than a period has been waited out: the new window starts
\* more than one period after the one before
C20_Witness ==
    /\ pc = "collect"
    /\ blocks_done >= 1
    /\ now > current_boundary
    /\ current_boundary >= 3 * LOG_BLOCK_SEC

\* the steps from one position of main() to another
CycleSteps ==
    {<<"align", "start">>, <<"start", "collect">>, <<"collect", "aggregate">>,
     <<"aggregate", "collect">>, <<"aggregate", "ramp">>,
     <<"aggregate", "realign">>, <<"ramp", "log">>, <<"log", "realign">>,
     <<"realign", "collect">>}

\* C21: main() moves align, start codes, then per cycle collect, aggregate
\* (filter and statistics), and either back to collect (block skipped or
\* rejected) or on to the ramp, the log rows and the realignment; rows are
\* read only while collecting, DAC writes are issued only at startup and in
\* the ramp, dT is computed only in the aggregation, and aggregation, ramp,
\* log and realignment of a block come after the end of its window.
C21_CycleOrder ==
    /\ [][pc' # pc => <<pc, pc'>> \in CycleSteps]_vars
    /\ [][Len(block_rows') > Len(block_rows) => pc = "collect"]_vars
    /\ [][(dac_code' # dac_code
             \/ \E ch \in DOMAIN writes : writes'[ch] > writes[ch])
            => pc \in {"start", "ramp"}]_vars
    /\ [][(dT' # dT /\ dT' # Ratio(0, 1)) => pc = "aggregate"]_vars
    /\ [](pc \in {"aggregate", "ramp", "log", "realign"} => now >= block_end)

\* a ramp is in progress for a block whose window is over, its rows
\* aggregated, and the DAC has been written
C21_Witness ==
    /\ pc = "ramp"
    /\ now >= block_end
    /\ block_rows = <<>>
    /\ \E ch \in DOMAIN writes : writes[ch] >= 2

\* C22: the filter returns the block unchanged with 0 removed when it is
\* switched off, when the block has fewer than OUTLIER_MIN_POINTS rows or
\* when the MAD of the temperatures is zero; otherwise it returns, in the
\* original order and whole, exactly the rows whose temperature is within
\* OUTLIER_MAD_Z * 1.4826 * MAD of the median, and the removed count is the
\* number of rows in minus the number of rows out.
C22_FilterContract ==
    pc = "filtered" =>
        /\ PassesThrough(call_arg) => call_ret = <<call_arg, 0>>
        /\ ~PassesThrough(call_arg) => call_ret[1] = RowsWithinMad(call_arg)
        /\ call_ret[2] = Len(call_arg) - Len(call_ret[1])

\* the filter has taken the 35.00 C row out of a block of ten
C22_Witness ==
    /\ pc = "filtered"
    /\ Len(call_arg) = 10
    /\ call_ret[2] = 1
    /\ Len(call_ret[1]) = 9
    /\ \A i \in 1..9 : call_ret[1][i][1] # 3500

\* a step that hands a code to dac.py
IsDacWrite ==
    /\ ~DRY_RUN
    /\ \/ dac_code' # dac_code
       \/ \E ch \in DOMAIN writes : writes'[ch] > writes[ch]

\* C23: every DAC write but the first of the run comes at least the write
\* gap after the write before it: the gap sleep has been made since, or the
\* write is the first of a ramp, with the sampling of a block since the
\* write before.
C23_GapBetweenAnyWrites ==
    [][(IsDacWrite /\ dac_code # Empty) =>
          \/ gap_slept
          \/ pc = "ramp" /\ \A ch \in DOMAIN writes : writes[ch] = 0]_vars

\* C24: under the Direct policy an accepted block writes each channel whose
\* target passes the anti dither checks exactly once, with the target code,
\* and writes no other channel; a skipped or rejected block writes nothing.
C24_DirectOneApply ==
    /\ [](pc = "realign" =>
            \A ch \in ChannelSet :
               LET prev == CodeBefore(ch)
                   tgt == TargetOfCycle(ch)
               IN  IF AntiDitherPass(prev, tgt)
                   THEN /\ writes[ch] = 1
                        /\ dac_code[ch] = tgt
                        /\ last_code_by_ch[ch] = tgt
                   ELSE /\ writes[ch] = 0
                        /\ last_code_by_ch[ch] = prev)
    /\ [][(pc = "aggregate" /\ pc' = "collect") =>
            /\ dac_code' = dac_code
            /\ last_code_by_ch' = last_code_by_ch
            /\ adj_rows' = adj_rows]_vars
    /\ [][dac_code' # dac_code => pc \in {"start", "aggregate"}]_vars

\* an accepted block has applied a new code to a channel, once
C24_Witness ==
    /\ pc = "realign"
    /\ ch_order = <<>>
    /\ \E ch \in DOMAIN before_info :
         /\ writes[ch] = 1
         /\ dac_code[ch] # before_info[ch].code_prev
         /\ dac_code[ch] = last_code_by_ch[ch]

\* the code a block of mean temperature T_avg takes a channel to, by the
\* compensation law and the anti dither checks alone
CodeAfterBlock(ch) ==
    LET prev == CodeBefore(ch)
        law == CompensationLaw(prev, vlow_ref_by_ch[ch], T_avg)
    IN  IF AntiDitherPass(prev, law) THEN law ELSE prev

\* the channels a block moves, in the order of CHANNELS
MovedOrder ==
    OrderOf(CHANNELS, {ch \in ChannelSet : CodeAfterBlock(ch) # CodeBefore(ch)})

\* C25: whichever policy handles an accepted block, Direct or Incremental,
\* every channel ends the block at the code fixed by the channel's code and
\* reference voltage before the block and the block's mean temperature, and
\* the adjustment rows of the block carry the same channels, old codes and
\* new codes: from equal start codes and references and equal block
\* statistics the two policies go through the same codes.
C25_PoliciesSameCodes ==
    pc = "realign" =>
      /\ \A ch \in ChannelSet : last_code_by_ch[ch] = CodeAfterBlock(ch)
      /\ Len(adj_cycle) = Len(MovedOrder)
      /\ \A i \in 1..Len(adj_cycle) :
           /\ adj_cycle[i].channel = MovedOrder[i]
           /\ adj_cycle[i].old_code = CodeBefore(MovedOrder[i])
           /\ adj_cycle[i].new_code = CodeAfterBlock(MovedOrder[i])

\* the Direct policy has taken a channel from 753 to 636 after a block of
\* mean 25.00 C, as the ramp does
C25_Witness ==
    /\ pc = "realign"
    /\ T_avg = Ratio(2500, 1)
    /\ ch_order = <<>>
    /\ Len(adj_cycle) >= 1
    /\ adj_cycle[1].old_code = 753
    /\ adj_cycle[1].new_code = 636
    /\ writes[adj_cycle[1].channel] = 1

\* C26: with every block accepted at the same mean temperature, each block
\* leaves every channel between its previous code and
\* vlow_to_code(vlow_ref + dV), never past it; a channel short of that code
\* after a block has either moved by the whole MAX_CODES_STEP_PER_BLOCK or
\* is held by the anti dither checks and has not moved, so that at most
\* ceil(1023 / MAX_CODES_STEP_PER_BLOCK) blocks move it; a block that does
\* not move a channel issues no write for it; and a channel that has arrived
\* or is held is planned no step by the next block of that temperature.
\* From the start codes two blocks suffice.
C26_SteadyConvergence ==
    pc = "realign" =>
      /\ T_avg = Ratio(call_arg[1], 1)
      /\ \A ch \in ChannelSet :
           LET prev == CodeBefore(ch)
               code == last_code_by_ch[ch]
               goal == TargetUnclamped(ch)
           IN  /\ prev <= goal => (prev <= code /\ code <= goal)
               /\ prev >= goal => (goal <= code /\ code <= prev)
               /\ code # goal =>
                    \/ Abs(code - prev) = MAX_CODES_STEP_PER_BLOCK
                    \/ code = prev /\ ~AntiDitherPass(prev, TargetOfCycle(ch))
               /\ code = prev => writes[ch] = 0
               /\ (code = goal \/ code = prev) =>
                    ~AntiDitherPass(code,
                        CompensationLaw(code, vlow_ref_by_ch[ch], T_avg))
               /\ blocks_done >= 2 => (code = prev /\ writes[ch] = 0)

\* the second block of a steady 35.00 C has taken channel 0 from 633 to the
\* code of the compensated voltage, and a further block would plan no step
C26_Witness ==
    /\ pc = "realign"
    /\ call_arg = <<3500>>
    /\ blocks_done = 1
    /\ CodeBefore(0) = 753 - MAX_CODES_STEP_PER_BLOCK
    /\ last_code_by_ch[0] = TargetUnclamped(0)
    /\ last_code_by_ch[0] < 753 - MAX_CODES_STEP_PER_BLOCK

\* C27: whenever main() is outside the startup loop and outside
\* ramp_codes_round_robin and the take-over of its result, so in particular
\* while it collects the samples of a block, last_code_by_ch of every channel
\* is the code of the last set_dac_and_read call made for the channel,
\* whether or not that call returned readings.
C27_LastCodeIsApplied ==
    pc \in {"collect", "aggregate", "realign"} =>
      /\ DOMAIN dac_code = ChannelSet
      /\ \A ch \in ChannelSet : last_code_by_ch[ch] = dac_code[ch]

\* collecting again after a block of 25.00 C: the ramp of channel 0 ended at
\* 636 with a write that returned no readings
C27_Witness ==
    /\ pc = "collect"
    /\ ~DRY_RUN
    /\ blocks_done = 1
    /\ last_code_by_ch[0] = 636
    /\ dac_code[0] = 636
    /\ isnan(last_meas_hv_by_ch[0])

\* C29: with OUTLIER_MAD_Z = 3.5, where OUTLIER_MAD_Z * 1.4826 is at least
\* 1, the filter returns at least half of the rows it is given: a block
\* with rows never comes back empty,
\* and main() never finds all samples filtered out.
C29_FilterKeepsHalf ==
    pc = "filtered" =>
      /\ 2 * Len(call_ret[1]) >= Len(call_arg)
      /\ call_arg # <<>> => call_ret[1] # <<>>
      /\ BlockVerdict(call_arg) # "all_filtered"

\* the filter has taken four rows out of a block of ten
C29_Witness ==
    /\ pc = "filtered"
    /\ Len(call_arg) = 10
    /\ call_ret[2] = 4
    /\ Len(call_ret[1]) = 6

\* the channels of the ramp of the current block
Ramped == {ch_order[i] : i \in 1..Len(ch_order)}

\* C28: in an accepted block the channels handed to the ramp are those whose
\* target passes the anti dither checks, and from the planning of the block
\* to the end of its logging a channel that is not among them is written
\* no code and keeps its last_code_by_ch, last_meas_vlow_by_ch,
\* last_meas_hv_by_ch and last_meas_vbias_by_ch, whatever the ramp does to
\* the other channels.
C28_DiscardedUntouched ==
    /\ [](pc \in {"ramp", "log", "realign"} =>
            \A ch \in DOMAIN last_code_by_ch :
               ch \in Ramped <=> AntiDitherPass(CodeBefore(ch), TargetOfCycle(ch)))
    /\ [][(pc \in {"aggregate", "ramp", "log"} /\ pc' \in {"ramp", "log", "realign"}) =>
            \A ch \in DOMAIN last_code_by_ch :
               ch \notin {ch_order'[i] : i \in 1..Len(ch_order')} =>
                  /\ writes'[ch] = writes[ch]
                  /\ dac_code'[ch] = dac_code[ch]
                  /\ last_code_by_ch'[ch] = last_code_by_ch[ch]
                  /\ last_meas_vlow_by_ch'[ch] = last_meas_vlow_by_ch[ch]
                  /\ last_meas_hv_by_ch'[ch] = last_meas_hv_by_ch[ch]
                  /\ last_meas_vbias_by_ch'[ch] = last_meas_vbias_by_ch[ch]]_vars

\* a block has ramped channel 0 to another code and logged it, while
\* channel 1, whose target the anti dither checks discarded, is where the
\* startup left it: at its start code, with the readings of that one write
C28_Witness ==
    /\ pc = "realign"
    /\ ~DRY_RUN
    /\ ch_order = <<0>>
    /\ last_code_by_ch[0] # 753
    /\ writes[0] >= MIN_STEP_CODES
    /\ ~AntiDitherPass(CodeBefore(1), TargetOfCycle(1))
    /\ TargetOfCycle(1) # 753
    /\ last_code_by_ch[1] = 753
    /\ dac_code[1] = 753
    /\ writes[1] = 0
    /\ ~isnan(last_meas_hv_by_ch[1])
====
